---- MODULE Spec2Model ----
(***************************************************************************)
(* A model of ic-stable-memory: the segregated free-list allocator         *)
(* (src/mem/allocator.rs) and the B+-tree map                              *)
(* (src/collections/b_plus_tree_map/mod.rs).                               *)
(*                                                                         *)
(* Stable memory is modelled at the granularity the allocator itself reads *)
(* it: one record per block (its header/trailer size and free flag, and,   *)
(* for a free block, the two free-list pointers kept in its payload).      *)
(* A block is named by the offset of its header.                           *)
(***************************************************************************)
EXTENDS Integers, Sequences, FiniteSets, TLC

(***************************************************************************)
(* Program constants.                                                      *)
(***************************************************************************)
\* u64::MAX, the "none" pointer; the model writes the sentinel as -1.
EMPTY_PTR == -1
\* usize::BITS - 4 on the 32-bit wasm target the library is built for
SEG_CLASS_PTRS_COUNT == 28
CUSTOM_DATA_PTRS_COUNT == 4
DEFAULT_MAX_ALLOCATION_PAGES == 180
DEFAULT_MAX_GROW_PAGES == 0
\* MAGIC, the bytes 'S', 'M', 'A', 'M' read as one little-endian word
MAGIC == 1296125267
MAGIC_LEN == 4
PTR_SIZE == 8
BLOCK_META_SIZE == 4
BLOCK_MIN_TOTAL_SIZE == PTR_SIZE * 2 + BLOCK_META_SIZE * 2
PAGE_SIZE_BYTES == 65536

\* b_plus_tree_map: the order of the tree and the node capacities
B == 6
CAPACITY == 2 * B - 1
MIN_LEN_AFTER_SPLIT == B - 1
CHILDREN_CAPACITY == 2 * B
CHILDREN_MIN_LEN_AFTER_SPLIT == B
NODE_TYPE_INTERNAL == 127
NODE_TYPE_LEAF == 255

\* Option::None, for an absent root, value or remembered internal node
None == -1
\* the content of a key, value or child slot that holds no entry: the unused
\* tail of a node is uninitialized, and so is memory that is not a node
UNINIT == 0

\* StableMemoryAllocator::SIZE, the byte length of the prologue.
ALLOCATOR_SIZE ==
    4 + (SEG_CLASS_PTRS_COUNT * 2) * PTR_SIZE + PTR_SIZE * 2 + PTR_SIZE + 1
      + PTR_SIZE + CUSTOM_DATA_PTRS_COUNT * PTR_SIZE

(***************************************************************************)
(* Bounds of the model.                                                    *)
(***************************************************************************)
\* pages of stable memory present when init() runs
InitPages == 1
\* the host refuses to grow stable memory beyond this many pages
MaxPages == 2
\* the client holds at most this many slices at a time
MaxSlices == 4
\* the client calls reallocate() at most this many times
MaxReallocs == 1

\* the client of the map uses the keys 1 .. MaxKey
MaxKey == 12
\* the map's _stack holds at most this many frames
MaxStack == 2
\* stable memory has room for this many tree nodes
MaxNodes == 8
\* the keys 1 .. RevaluedKeys are also stored with a second value
RevaluedKeys == 1
\* calls followed after a node has been read through a handle of the other kind
MaxCallsAfterFault == 1

\* the client holds at most this many slices where the sizes of FitSizes are
\* asked for
MaxFitSlices == 2

\* the client of the hash map uses the keys 1 .. MaxHashKey
MaxHashKey == 4
\* stable memory has room for this many tables of the hash map
MaxTables == 3

\* the keys of a map filled in increasing order are 1 .. MaxWideKey
MaxWideKey == 18
\* a map filled in increasing order has removes called on it while fewer than
\* this many of the keys 1 .. MaxWideKey are absent
WideRemoves == 3

\* the client of the log holds at most this many elements in it
MaxLogLen == 14
\* stable memory has room for this many sectors of the log
MaxSectors == 4
\* the elements 0 .. RevaluedElements - 1 of the log are also pushed with a
\* second value
RevaluedElements == 2

\* the client calls the allocator's setters at most this many times
MaxSettings == 2

\* payload sizes the client asks for in allocate()
AllocSizes == {12100, 48424}
\* payload sizes the client asks for in reallocate()
ReallocSizes == {12100, 24208}
\* payload sizes the client asks for where the choice between a whole block
\* and a split one is followed: one below BLOCK_MIN_TOTAL_SIZE, one that
\* leaves less than BLOCK_MIN_TOTAL_SIZE of the first page's free block, one
\* that leaves less than BLOCK_MIN_TOTAL_SIZE of a new page
FitSizes == {8, 65000, 65520}
\* payload sizes the client asks for before it stores the allocator
PersistSizes == {12100}
\* the caps the client sets with set_max_grow_pages() and
\* set_max_allocation_pages()
GrowCaps == {0, 2}
AllocationCaps == {1, DEFAULT_MAX_ALLOCATION_PAGES}
\* the custom data slots the client sets
CustomSlots == {0, CUSTOM_DATA_PTRS_COUNT - 1}

\* the hashes ZwoHasher may give a key of the hash map: under the capacities
\* 3, 5, 7, 9 and 13 they collide and they probe past the end of the table
HashValues == {4, 6, 13}
\* the capacities the client gives new_with_capacity()
InitialCapacities == {3}
\* the capacities the client gives new_with_capacity() where the growth of
\* the table is followed step by step
SmallCapacities == {1, 2, 4}
\* the hashes the keys have there: under the capacity 7 they collide
StepHashValues == {6, 13}

VARIABLES
    blocks,            \* stable memory: block offset -> [size, free, prev, next]
    seg_class_heads,   \* StableMemoryAllocator.seg_class_heads (offset or EMPTY_PTR)
    seg_class_tails,   \* StableMemoryAllocator.seg_class_tails
    free_size,         \* StableMemoryAllocator.free_size
    allocated_size,    \* StableMemoryAllocator.allocated_size
    max_ptr,           \* StableMemoryAllocator.max_ptr
    pages,             \* stable::size_pages()
    slices,            \* the SSlices the client holds: offset -> payload size
    n_reallocs,        \* how many times the client has called reallocate()
    last_op,           \* what the last allocator call did (a history variable)
    written,           \* what the client's slices hold: offset -> n, the first
                       \* n payload bytes being the first n bytes the client
                       \* wrote to the slice, or to the slice it was
                       \* reallocated from
    overrun,           \* a copy has written client bytes past the end of a block
    unwound,           \* a call has panicked and left the allocator as it was
                       \* when the panic was raised
    max_allocation_pages,  \* StableMemoryAllocator.max_allocation_pages
    max_grow_pages,        \* StableMemoryAllocator.max_grow_pages
    on_low_stable_memory_callback_executed,
    custom_data_ptrs,      \* StableMemoryAllocator.custom_data_ptrs
    prologue,          \* the allocator's header in stable memory: byte offset
                       \* from the allocator's offset -> the word or byte there
    live,              \* a StableMemoryAllocator value exists (store consumes it)
    stored,            \* <<the fields of the allocator that store() consumed
                       \* last>>, or <<>> (a history variable)
    n_settings,        \* how many times the client has called a setter
    low_memory_triggers,   \* how many times handle_low_memory() has gone on to
                           \* call the host's on_low_stable_memory() (a history
                           \* variable)
    heap,              \* the tree's nodes in stable memory: offset -> node
    root,              \* SBTreeMap.root (offset or None)
    len,               \* SBTreeMap.len
    stack,             \* SBTreeMap._stack
    fault,             \* "none", or what a call has read instead of the node it
                       \* expected: "wrong_kind" (a node of the other kind) or
                       \* "no_node" (memory that holds no node)
    calls_after_fault, \* calls made since fault left "none"
    ref,               \* the pairs the client has inserted and not removed
    hash_map,          \* the SHashMap [table_ptr, len, cap] and the tables in
                       \* stable memory: [heap |-> (offset -> table), ...]
    hash_of,           \* the hash of every key hashed so far: key -> hash
    hash_ref,          \* the pairs the client has put in the hash map and not
                       \* removed
    hash_last,         \* what the last call on the hash map returned, and
                       \* what a reference map returns (a history variable)
    hash_call,         \* the call of insert that is running, where it is
                       \* followed one activation at a time
    slog,              \* the SLog's fields and the sectors in stable memory:
                       \* [sectors |-> (offset -> sector), len, ...]
    log_ref,           \* the elements pushed and not popped, oldest first
    log_last           \* what the last call on the log returned, and what a
                       \* reference stack returns (a history variable)

\* the caps, the flag, the custom slots, the stored header
setting_vars ==
    <<max_allocation_pages, max_grow_pages, on_low_stable_memory_callback_executed,
      custom_data_ptrs, prologue, live, stored, n_settings, low_memory_triggers>>

alloc_vars ==
    <<blocks, seg_class_heads, seg_class_tails, free_size, allocated_size,
      max_ptr, pages, slices, n_reallocs, last_op, written, overrun, unwound,
      setting_vars>>

tree_vars == <<heap, root, len, stack, fault, calls_after_fault, ref>>

hash_vars == <<hash_map, hash_of, hash_ref, hash_last, hash_call>>

\* the collections other than the B+-tree map
log_vars == <<slog, log_ref, log_last>>

coll_vars == <<hash_vars, log_vars>>

vars == <<alloc_vars, tree_vars, coll_vars>>

SegClasses == 0 .. (SEG_CLASS_PTRS_COUNT - 1)

\* offset of the allocator prologue used by init()
AllocatorOffset == 0

min_ptr == AllocatorOffset + ALLOCATOR_SIZE + BLOCK_META_SIZE * 2

(***************************************************************************)
(* Arithmetic helpers.                                                     *)
(***************************************************************************)
RECURSIVE fast_log2(_)
fast_log2(n) == IF n <= 1 THEN 0 ELSE 1 + fast_log2(n \div 2)

RECURSIVE Pow2(_)
Pow2(e) == IF e = 0 THEN 1 ELSE 2 * Pow2(e - 1)

get_seg_class_id(size) ==
    LET class(log) == IF log > 3 THEN log - 4 ELSE 0
        round_up(l0) == class(IF Pow2(l0) < size THEN l0 + 1 ELSE l0)
    IN  round_up(fast_log2(size))

pad_size_unpadded(size) == size

pad_size(size) ==
    IF size < BLOCK_MIN_TOTAL_SIZE THEN BLOCK_MIN_TOTAL_SIZE ELSE size

(***************************************************************************)
(* FreeBlock / SSlice geometry.                                            *)
(***************************************************************************)
get_total_size_bytes(size) == size + BLOCK_META_SIZE * 2

get_next_neighbor_ptr(ptr, size) == ptr + size + BLOCK_META_SIZE * 2

\* FreeBlock::new_total_size(ptr, total): the payload of a block of `total` bytes
new_total_size(total) == total - BLOCK_META_SIZE * 2

\* a block record as persisted in stable memory
FreeRec(size, prev, next) ==
    [size |-> size, free |-> TRUE, prev |-> prev, next |-> next]

AllocatedRec(size) ==
    [size |-> size, free |-> FALSE, prev |-> EMPTY_PTR, next |-> EMPTY_PTR]

\* the allocator as a value: the fields the operations read and write
AllocatorState ==
    [blocks |-> blocks, heads |-> seg_class_heads, tails |-> seg_class_tails,
     free_size |-> free_size, allocated_size |-> allocated_size,
     max_ptr |-> max_ptr, pages |-> pages]

\* the block whose trailer lies just before ptr, located through that trailer
PrevBlockOf(a, ptr) ==
    {b \in DOMAIN a.blocks : get_next_neighbor_ptr(b, a.blocks[b].size) = ptr}

\* FreeBlock::check_neighbor_is_also_free(Side::Start, min_ptr, max_ptr):
\* the offset of the previous neighbor when it is in range and free
prev_neighbor_if_free(a, ptr) ==
    IF ptr <= min_ptr THEN EMPTY_PTR
    ELSE LET pick(c) == IF c = {} THEN EMPTY_PTR ELSE CHOOSE b \in c : TRUE
         IN  pick({b \in PrevBlockOf(a, ptr) : a.blocks[b].free})

\* FreeBlock::check_neighbor_is_also_free(Side::End, min_ptr, max_ptr)
next_neighbor_if_free(a, ptr, size) ==
    LET n == get_next_neighbor_ptr(ptr, size)
    IN  IF n >= a.max_ptr THEN EMPTY_PTR
        ELSE IF n \in DOMAIN a.blocks /\ a.blocks[n].free THEN n
        ELSE EMPTY_PTR

\* FreeBlock::set_prev_free_ptr / set_next_free_ptr
set_prev_free_ptr(bl, ptr, p) == [bl EXCEPT ![ptr].prev = p]
set_next_free_ptr(bl, ptr, n) == [bl EXCEPT ![ptr].next = n]

(***************************************************************************)
(* eject_from_freelist                                                     *)
(***************************************************************************)
\* eject_from_freelist with the "in between" case linking prev to next only
eject_from_freelist_one_way(a, seg_class_id, ptr) ==
    LET b == a.blocks[ptr]
        a1 ==
          IF a.heads[seg_class_id] = ptr
          THEN IF a.tails[seg_class_id] = ptr
               THEN [a EXCEPT !.heads[seg_class_id] = EMPTY_PTR,
                              !.tails[seg_class_id] = EMPTY_PTR]
               ELSE [a EXCEPT !.heads[seg_class_id] = b.next,
                              !.blocks = set_prev_free_ptr(a.blocks, b.next, EMPTY_PTR)]
          ELSE IF a.tails[seg_class_id] = ptr
               THEN [a EXCEPT !.tails[seg_class_id] = b.prev,
                              !.blocks = set_next_free_ptr(a.blocks, b.prev, EMPTY_PTR)]
               ELSE [a EXCEPT !.blocks = set_next_free_ptr(a.blocks, b.prev, b.next)]
    IN  [a1 EXCEPT !.free_size = a.free_size - get_total_size_bytes(b.size)]

eject_from_freelist(a, seg_class_id, ptr) ==
    LET b == a.blocks[ptr]
        a1 ==
          IF a.heads[seg_class_id] = ptr
          THEN IF a.tails[seg_class_id] = ptr
               THEN [a EXCEPT !.heads[seg_class_id] = EMPTY_PTR,
                              !.tails[seg_class_id] = EMPTY_PTR]
               ELSE [a EXCEPT !.heads[seg_class_id] = b.next,
                              !.blocks = set_prev_free_ptr(a.blocks, b.next, EMPTY_PTR)]
          ELSE IF a.tails[seg_class_id] = ptr
               THEN [a EXCEPT !.tails[seg_class_id] = b.prev,
                              !.blocks = set_next_free_ptr(a.blocks, b.prev, EMPTY_PTR)]
               ELSE [a EXCEPT !.blocks =
                        set_prev_free_ptr(
                            set_next_free_ptr(a.blocks, b.prev, b.next),
                            b.next, b.prev)]
    IN  [a1 EXCEPT !.free_size = a.free_size - get_total_size_bytes(b.size)]

(***************************************************************************)
(* maybe_merge_with_free_neighbors: the merged block as [a, ptr, size]     *)
(***************************************************************************)
\* stable memory with the blocks starting inside [from, to) forgotten: their
\* headers are now payload bytes of the block that covers the range
DropInterior(bl, from, to) ==
    [p \in {q \in DOMAIN bl : ~(q > from /\ q < to)} |-> bl[p]]

\* the merge that forgets the header and trailer between the block and its
\* next neighbor
maybe_merge_short_of_meta(a, ptr, size) ==
    LET merge_prev(prev) ==
            IF prev # EMPTY_PTR
            THEN [a |-> eject_from_freelist(a, get_seg_class_id(a.blocks[prev].size), prev),
                  ptr |-> prev,
                  size |-> a.blocks[prev].size + size + BLOCK_META_SIZE * 2]
            ELSE [a |-> a, ptr |-> ptr, size |-> size]
        merge_next(m, next) ==
            IF next # EMPTY_PTR
            THEN [a |-> eject_from_freelist(m.a, get_seg_class_id(a.blocks[next].size), next),
                  ptr |-> m.ptr,
                  size |-> a.blocks[next].size + m.size]
            ELSE m
    IN  merge_next(merge_prev(prev_neighbor_if_free(a, ptr)),
                   next_neighbor_if_free(a, ptr, size))

\* the merge that looks at the next neighbor only
maybe_merge_with_next_only(a, ptr, size) ==
    LET merge_next(next) ==
            IF next # EMPTY_PTR
            THEN [a |-> eject_from_freelist(a, get_seg_class_id(a.blocks[next].size), next),
                  ptr |-> ptr,
                  size |-> a.blocks[next].size + size + BLOCK_META_SIZE * 2]
            ELSE [a |-> a, ptr |-> ptr, size |-> size]
    IN  merge_next(next_neighbor_if_free(a, ptr, size))

maybe_merge_with_free_neighbors(a, ptr, size) ==
    LET merge_prev(prev) ==
            IF prev # EMPTY_PTR
            THEN [a |-> eject_from_freelist(a, get_seg_class_id(a.blocks[prev].size), prev),
                  ptr |-> prev,
                  size |-> a.blocks[prev].size + size + BLOCK_META_SIZE * 2]
            ELSE [a |-> a, ptr |-> ptr, size |-> size]
        merge_next(m, next) ==
            IF next # EMPTY_PTR
            THEN [a |-> eject_from_freelist(m.a, get_seg_class_id(a.blocks[next].size), next),
                  ptr |-> m.ptr,
                  size |-> a.blocks[next].size + m.size + BLOCK_META_SIZE * 2]
            ELSE m
    IN  merge_next(merge_prev(prev_neighbor_if_free(a, ptr)),
                   next_neighbor_if_free(a, ptr, size))

(***************************************************************************)
(* push_free_block                                                         *)
(***************************************************************************)
\* free_block.persist(): the header and trailer of the block (ptr, size)
\* written as free, with both free-list pointers empty
persist_free(bl, ptr, size) ==
    LET write(cleared) ==
            [p \in DOMAIN cleared \cup {ptr} |->
                IF p = ptr THEN FreeRec(size, EMPTY_PTR, EMPTY_PTR) ELSE cleared[p]]
    IN  write(DropInterior(bl, ptr, get_next_neighbor_ptr(ptr, size)))

push_free_block(a0, ptr0, size0, try_merge) ==
    LET link(a, ptr, size, c) ==
            IF a.heads[c] = EMPTY_PTR
            THEN [a EXCEPT !.heads[c] = ptr, !.tails[c] = ptr,
                           !.free_size = a.free_size + get_total_size_bytes(size)]
            ELSE [a EXCEPT !.tails[c] = ptr,
                           !.blocks = [set_next_free_ptr(a.blocks, a.tails[c], ptr)
                                         EXCEPT ![ptr].prev = a.tails[c]],
                           !.free_size = a.free_size + get_total_size_bytes(size)]
        push(m) ==
            link([m.a EXCEPT !.blocks = persist_free(m.a.blocks, m.ptr, m.size)],
                 m.ptr, m.size, get_seg_class_id(m.size))
    IN  push(IF try_merge THEN maybe_merge_with_free_neighbors(a0, ptr0, size0)
             ELSE [a |-> a0, ptr |-> ptr0, size |-> size0])

(***************************************************************************)
(* pop_free_block                                                          *)
(***************************************************************************)
\* the walk of one class's list from block p: the first block whose payload
\* is at least `size`, or EMPTY_PTR when the list ends
RECURSIVE FirstFitFrom(_, _, _)
FirstFitFrom(a, p, size) ==
    IF p = EMPTY_PTR THEN EMPTY_PTR
    ELSE IF a.blocks[p].size >= size THEN p
    ELSE FirstFitFrom(a, a.blocks[p].next, size)

\* the while loop over the classes from seg_class_id upward: [class, ptr]
RECURSIVE FirstFit(_, _, _)
\* the search kept to the class of the request
FirstFit_own_class(a, seg_class_id, size) ==
    IF seg_class_id >= SEG_CLASS_PTRS_COUNT
    THEN [class |-> seg_class_id, ptr |-> EMPTY_PTR]
    ELSE [class |-> seg_class_id, ptr |-> FirstFitFrom(a, a.heads[seg_class_id], size)]

FirstFit(a, seg_class_id, size) ==
    IF seg_class_id >= SEG_CLASS_PTRS_COUNT
    THEN [class |-> seg_class_id, ptr |-> EMPTY_PTR]
    ELSE LET found(p) ==
                 IF p # EMPTY_PTR THEN [class |-> seg_class_id, ptr |-> p]
                 ELSE FirstFit(a, seg_class_id + 1, size)
         IN  found(FirstFitFrom(a, a.heads[seg_class_id], size))

\* which positional case eject_from_freelist takes for block ptr of class c
EjectCase(a, c, ptr) ==
    IF a.heads[c] = ptr
    THEN (IF a.tails[c] = ptr THEN "only" ELSE "head")
    ELSE (IF a.tails[c] = ptr THEN "tail" ELSE "middle")

\* stable::grow(n): the host refuses beyond MaxPages
GrowOk(a, n) == a.pages + n <= MaxPages

\* allocated_size grown by the total size of a block of payload `size`
count_allocated(a, size) ==
    [a EXCEPT !.allocated_size = a.allocated_size + get_total_size_bytes(size)]

\* the tail of pop_free_block once a free block (ptr, fsize) is in hand, a
\* being the allocator after the ejection or the grow: the block is returned
\* whole, or split with the remainder pushed unmerged
take_or_split(a, ptr, fsize, size, whole, split, pos) ==
    IF fsize < size + BLOCK_MIN_TOTAL_SIZE
    THEN [ok |-> TRUE, a |-> count_allocated(a, fsize),
          ptr |-> ptr, size |-> fsize, path |-> whole, eject |-> pos]
    ELSE [ok |-> TRUE,
          a |-> count_allocated(
                    push_free_block(a, get_next_neighbor_ptr(ptr, size),
                                    new_total_size(fsize - size), FALSE),
                    size),
          ptr |-> ptr, size |-> size, path |-> split, eject |-> pos]

\* the pages the grow branch asks the host for
pages_to_grow(size) ==
    ((size + BLOCK_META_SIZE * 2) \div PAGE_SIZE_BYTES)
      + (IF (size + BLOCK_META_SIZE * 2) % PAGE_SIZE_BYTES # 0 THEN 1 ELSE 0)

\* the grow branch that counts the block as allocated before the host
\* refuses
pop_by_growing_counted(a, size, n) ==
    IF ~GrowOk(a, n)
    THEN [ok |-> FALSE, a |-> count_allocated(a, size), ptr |-> EMPTY_PTR, size |-> 0,
          path |-> "oom", eject |-> "none"]
    ELSE take_or_split([a EXCEPT !.pages = a.pages + n,
                                 !.max_ptr = (a.pages + n) * PAGE_SIZE_BYTES],
                       a.pages * PAGE_SIZE_BYTES,
                       new_total_size(n * PAGE_SIZE_BYTES),
                       size, "grow_whole", "grow_split", "none")

\* the grow branch of pop_free_block
pop_by_growing(a, size, n) ==
    IF ~GrowOk(a, n)
    THEN [ok |-> FALSE, a |-> a, ptr |-> EMPTY_PTR, size |-> 0, path |-> "oom",
          eject |-> "none"]
    ELSE take_or_split([a EXCEPT !.pages = a.pages + n,
                                 !.max_ptr = (a.pages + n) * PAGE_SIZE_BYTES],
                       a.pages * PAGE_SIZE_BYTES,
                       new_total_size(n * PAGE_SIZE_BYTES),
                       size, "grow_whole", "grow_split", "none")

\* the result of pop_free_block: [ok, a, ptr, size, path, eject]
pop_free_block(a, size) ==
    LET found(fit) ==
            IF fit.ptr # EMPTY_PTR
            THEN take_or_split(eject_from_freelist(a, fit.class, fit.ptr),
                               fit.ptr, a.blocks[fit.ptr].size, size,
                               "whole", "split", EjectCase(a, fit.class, fit.ptr))
            ELSE pop_by_growing(a, size, pages_to_grow(size))
    IN  found(FirstFit(a, get_seg_class_id(size), size))

\* SSlice/FreeBlock::to_allocated(): header and trailer written as allocated
to_allocated(a, ptr, size) ==
    LET write(cleared) ==
            [p \in DOMAIN cleared \cup {ptr} |->
                IF p = ptr THEN AllocatedRec(size) ELSE cleared[p]]
    IN  [a EXCEPT !.blocks =
            write(DropInterior(a.blocks, ptr, get_next_neighbor_ptr(ptr, size)))]

(***************************************************************************)
(* allocate / deallocate / reallocate as functions of the allocator value  *)
(***************************************************************************)
\* [ok, a, ptr, size, path, eject]; ok = FALSE is the isotrap! of allocate
allocate(a, requested) ==
    LET mark(r) == IF r.ok THEN [r EXCEPT !.a = to_allocated(r.a, r.ptr, r.size)] ELSE r
    IN  mark(pop_free_block(a, pad_size(requested)))

\* which neighbors deallocate merges with
MergeCase(a, ptr, size) ==
    LET case(p, n) ==
            IF p /\ n THEN "both" ELSE IF p THEN "prev" ELSE IF n THEN "next" ELSE "none"
    IN  case(prev_neighbor_if_free(a, ptr) # EMPTY_PTR,
             next_neighbor_if_free(a, ptr, size) # EMPTY_PTR)

\* deallocate that forgets to take the block out of allocated_size
deallocate_uncounted(a, ptr, size) == push_free_block(a, ptr, size, TRUE)

\* deallocate that pushes the block without looking at its neighbors
deallocate_unmerged(a, ptr, size) ==
    push_free_block([a EXCEPT !.allocated_size =
                        a.allocated_size - get_total_size_bytes(size)],
                    ptr, size, FALSE)

deallocate(a, ptr, size) ==
    push_free_block([a EXCEPT !.allocated_size =
                        a.allocated_size - get_total_size_bytes(size)],
                    ptr, size, TRUE)

\* try_reallocate_inplace that never splits off the remainder
try_reallocate_inplace_whole(a, ptr, size, new_size) ==
    LET failed == [ok |-> FALSE, a |-> a, ptr |-> ptr, size |-> size, path |-> "none"]
        merged(next, target_size, ejected) ==
            IF target_size >= new_size
            THEN [ok |-> TRUE,
                  a |-> to_allocated(count_allocated(ejected, size), ptr, target_size),
                  ptr |-> ptr, size |-> target_size, path |-> "inplace_whole"]
            ELSE failed
        with_next(next) ==
            IF next = EMPTY_PTR THEN failed
            ELSE merged(next, size + a.blocks[next].size + BLOCK_META_SIZE * 2,
                        eject_from_freelist(a, get_seg_class_id(a.blocks[next].size), next))
    IN  with_next(next_neighbor_if_free(a, ptr, size))

\* try_reallocate_inplace: [ok, a, ptr, size, path]
try_reallocate_inplace(a, ptr, size, new_size) ==
    LET failed == [ok |-> FALSE, a |-> a, ptr |-> ptr, size |-> size, path |-> "none"]
        merged(next, target_size, ejected) ==
            IF target_size >= new_size /\ target_size < new_size + BLOCK_MIN_TOTAL_SIZE
            THEN [ok |-> TRUE,
                  a |-> to_allocated(count_allocated(ejected, size), ptr, target_size),
                  ptr |-> ptr, size |-> target_size, path |-> "inplace_whole"]
            ELSE IF target_size >= new_size + BLOCK_MIN_TOTAL_SIZE
            THEN [ok |-> TRUE,
                  a |-> to_allocated(
                            count_allocated(
                                push_free_block(ejected,
                                                get_next_neighbor_ptr(ptr, new_size),
                                                new_total_size(target_size - new_size),
                                                FALSE),
                                new_size),
                            ptr, new_size),
                  ptr |-> ptr, size |-> new_size, path |-> "inplace_split"]
            ELSE failed
        with_next(next) ==
            IF next = EMPTY_PTR THEN failed
            ELSE merged(next, size + a.blocks[next].size + BLOCK_META_SIZE * 2,
                        eject_from_freelist(a, get_seg_class_id(a.blocks[next].size), next))
    IN  with_next(next_neighbor_if_free(a, ptr, size))

\* reallocate: [ok, a, ptr, size, path]; ok = FALSE is the isotrap! of the
\* replacement allocate
reallocate(a, ptr, size, new_size) ==
    LET moved(n) ==
            [ok |-> n.ok, a |-> n.a, ptr |-> n.ptr, size |-> n.size,
             path |-> IF n.ok THEN "moved" ELSE "oom"]
        inplace(t) ==
            IF t.ok THEN t ELSE moved(allocate(deallocate(a, ptr, size), new_size))
    IN  inplace(try_reallocate_inplace(a, ptr, size, new_size))

\* the blocks that begin inside the n bytes written from the start of the
\* payload of the block at ptr: their header and what follows it are
\* overwritten
BlocksReached(a, ptr, n) ==
    {q \in DOMAIN a.blocks : q > ptr /\ q < ptr + BLOCK_META_SIZE + n}

\* a block's header and free-list pointers once they hold the client's
\* bytes, the client filling its payloads with zero bytes: the size 0 with
\* the free bit clear, and the offsets 0
ClientBytes == [size |-> 0, free |-> FALSE, prev |-> 0, next |-> 0]

\* SSlice::write_bytes(0, data) on the block at ptr, data being n client
\* bytes: stable memory takes all n bytes, whatever the payload size
write_bytes(a, ptr, n) ==
    [a EXCEPT !.blocks =
        [q \in DOMAIN @ |-> IF q \in BlocksReached(a, ptr, n) THEN ClientBytes ELSE @[q]]]

(***************************************************************************)
(* init                                                                    *)
(***************************************************************************)
EmptyAllocator ==
    [blocks |-> [p \in {} |-> AllocatedRec(0)],
     heads |-> [c \in SegClasses |-> EMPTY_PTR],
     tails |-> [c \in SegClasses |-> EMPTY_PTR],
     free_size |-> 0, allocated_size |-> 0,
     max_ptr |-> InitPages * PAGE_SIZE_BYTES, pages |-> InitPages]

init ==
    LET first_block(total_free_size) ==
            IF total_free_size > 0
            THEN push_free_block(EmptyAllocator, min_ptr,
                                 new_total_size(total_free_size), FALSE)
            ELSE EmptyAllocator
    IN  first_block(pad_size(InitPages * PAGE_SIZE_BYTES - min_ptr))

(***************************************************************************)
(* The allocator's settings and its stored header.                         *)
(***************************************************************************)
\* the offsets store() and reinit() step through, from the start of the
\* allocator's slice
heads_offset(i) == MAGIC_LEN + i * PTR_SIZE
tails_offset(i) == heads_offset(SEG_CLASS_PTRS_COUNT) + i * PTR_SIZE
free_size_offset == tails_offset(SEG_CLASS_PTRS_COUNT)
allocated_size_offset == free_size_offset + PTR_SIZE
max_allocation_pages_offset == allocated_size_offset + PTR_SIZE
max_grow_pages_offset == max_allocation_pages_offset + PTR_SIZE
flag_offset == max_grow_pages_offset + PTR_SIZE
custom_data_offset(i) == flag_offset + 1 + i * PTR_SIZE

\* the offsets at which the header holds a word, the magic or the flag byte
PrologueOffsets ==
    {0} \cup {heads_offset(i) : i \in SegClasses} \cup {tails_offset(i) : i \in SegClasses}
        \cup {free_size_offset, allocated_size_offset, max_allocation_pages_offset,
              max_grow_pages_offset, flag_offset}
        \cup {custom_data_offset(i) : i \in 0 .. CUSTOM_DATA_PTRS_COUNT - 1}

\* the fields of the StableMemoryAllocator value besides offset, min_ptr and
\* max_ptr
Fields ==
    [heads |-> seg_class_heads, tails |-> seg_class_tails,
     free_size |-> free_size, allocated_size |-> allocated_size,
     max_allocation_pages |-> max_allocation_pages,
     max_grow_pages |-> max_grow_pages,
     flag |-> on_low_stable_memory_callback_executed,
     custom_data_ptrs |-> custom_data_ptrs]

\* the fields of a value that is no more
NoFields ==
    [heads |-> [c \in SegClasses |-> EMPTY_PTR],
     tails |-> [c \in SegClasses |-> EMPTY_PTR],
     free_size |-> 0, allocated_size |-> 0,
     max_allocation_pages |-> 0, max_grow_pages |-> 0,
     flag |-> FALSE,
     custom_data_ptrs |-> [i \in 0 .. CUSTOM_DATA_PTRS_COUNT - 1 |-> 0]]

SetFields(f) ==
    /\ seg_class_heads' = f.heads
    /\ seg_class_tails' = f.tails
    /\ free_size' = f.free_size
    /\ allocated_size' = f.allocated_size
    /\ max_allocation_pages' = f.max_allocation_pages
    /\ max_grow_pages' = f.max_grow_pages
    /\ on_low_stable_memory_callback_executed' = f.flag
    /\ custom_data_ptrs' = f.custom_data_ptrs

\* store() with the tails left unwritten
store_without_tails(f) ==
    [o \in PrologueOffsets |->
        IF o = 0 THEN MAGIC
        ELSE IF o < tails_offset(0) THEN f.heads[(o - heads_offset(0)) \div PTR_SIZE]
        ELSE IF o < free_size_offset THEN 0
        ELSE IF o = free_size_offset THEN f.free_size
        ELSE IF o = allocated_size_offset THEN f.allocated_size
        ELSE IF o = max_allocation_pages_offset THEN f.max_allocation_pages
        ELSE IF o = max_grow_pages_offset THEN f.max_grow_pages
        ELSE IF o = flag_offset THEN (IF f.flag THEN 1 ELSE 0)
        ELSE f.custom_data_ptrs[(o - custom_data_offset(0)) \div PTR_SIZE]]

\* store(): the header the allocator's slice holds afterwards.  A head or
\* tail that is None is written as EMPTY_PTR, max_allocation_pages (u32) as
\* a u64 word, the flag as the byte 1 or 0.
store(f) ==
    [o \in PrologueOffsets |->
        IF o = 0 THEN MAGIC
        ELSE IF o < tails_offset(0) THEN f.heads[(o - heads_offset(0)) \div PTR_SIZE]
        ELSE IF o < free_size_offset THEN f.tails[(o - tails_offset(0)) \div PTR_SIZE]
        ELSE IF o = free_size_offset THEN f.free_size
        ELSE IF o = allocated_size_offset THEN f.allocated_size
        ELSE IF o = max_allocation_pages_offset THEN f.max_allocation_pages
        ELSE IF o = max_grow_pages_offset THEN f.max_grow_pages
        ELSE IF o = flag_offset THEN (IF f.flag THEN 1 ELSE 0)
        ELSE f.custom_data_ptrs[(o - custom_data_offset(0)) \div PTR_SIZE]]

\* FreeBlock::from_ptr(ptr, Side::Start, None): the free block whose header
\* is at ptr, None when the header there is not one of a free block
free_block_from_ptr(mem, ptr) ==
    IF ptr \in DOMAIN mem /\ mem[ptr].free THEN ptr ELSE EMPTY_PTR

\* reinit(): the fields read back from the header p, mem being the blocks
\* of stable memory.  max_allocation_pages is the word narrowed to u32,
\* which leaves every value a u32 field was stored from as it is; the flag
\* is set when the byte is 1.
reinit(p, mem) ==
    [heads |-> [c \in SegClasses |->
                   IF p[heads_offset(c)] = EMPTY_PTR THEN EMPTY_PTR
                   ELSE free_block_from_ptr(mem, p[heads_offset(c)])],
     tails |-> [c \in SegClasses |->
                   IF p[tails_offset(c)] = EMPTY_PTR THEN EMPTY_PTR
                   ELSE free_block_from_ptr(mem, p[tails_offset(c)])],
     free_size |-> p[free_size_offset],
     allocated_size |-> p[allocated_size_offset],
     max_allocation_pages |-> p[max_allocation_pages_offset],
     max_grow_pages |-> p[max_grow_pages_offset],
     flag |-> (p[flag_offset] = 1),
     custom_data_ptrs |-> [i \in 0 .. CUSTOM_DATA_PTRS_COUNT - 1 |-> p[custom_data_offset(i)]]]

(***************************************************************************)
(* The free buffer and the low-memory hook.                                *)
(***************************************************************************)
\* what handle_low_memory() leaves: the flag, and whether it went on to call
\* the host's on_low_stable_memory()
HookRec(flag, triggered) == [flag |-> flag, triggered |-> triggered]

handle_low_memory_unguarded(flag) == HookRec(TRUE, TRUE)

handle_low_memory(flag) ==
    IF flag THEN HookRec(flag, FALSE) ELSE HookRec(TRUE, TRUE)

\* Some(prev_pages) is grown = TRUE
grow_or_trigger_low_memory_hook(a, max_grow, flag, n) ==
    IF max_grow # 0 /\ a.pages + n >= max_grow
    THEN [grown |-> FALSE, path |-> "capped", hook |-> handle_low_memory(flag)]
    ELSE IF GrowOk(a, n)
         THEN [grown |-> TRUE, path |-> "grown", hook |-> HookRec(flag, FALSE)]
         ELSE [grown |-> FALSE, path |-> "refused", hook |-> handle_low_memory(flag)]

handle_free_buffer(a, max_allocation, max_grow, flag) ==
    IF a.free_size >= max_allocation * PAGE_SIZE_BYTES
    THEN [a |-> a, path |-> "enough", hook |-> HookRec(flag, FALSE)]
    ELSE LET n == max_allocation - a.free_size \div PAGE_SIZE_BYTES + 1
             after(g) ==
                 [a |-> IF g.grown
                        THEN push_free_block([a EXCEPT !.pages = a.pages + n],
                                             a.pages * PAGE_SIZE_BYTES,
                                             new_total_size(n * PAGE_SIZE_BYTES),
                                             TRUE)
                        ELSE a,
                  path |-> g.path, hook |-> g.hook]
         IN  after(grow_or_trigger_low_memory_hook(a, max_grow, flag, n))

(***************************************************************************)
(* The allocator's state machine.                                          *)
(***************************************************************************)
SetAllocator(a) ==
    /\ blocks' = a.blocks
    /\ seg_class_heads' = a.heads
    /\ seg_class_tails' = a.tails
    /\ free_size' = a.free_size
    /\ allocated_size' = a.allocated_size
    /\ max_ptr' = a.max_ptr
    /\ pages' = a.pages

\* what an allocator call did: the call, the path it took, the positional
\* cases of the ejections it made, the block it returned or released
OpRec(op, path, eject, ptr) ==
    [op |-> op, path |-> path, eject |-> eject, ptr |-> ptr]

AllocInit ==
    LET start(a) ==
            /\ blocks = a.blocks
            /\ seg_class_heads = a.heads
            /\ seg_class_tails = a.tails
            /\ free_size = a.free_size
            /\ allocated_size = a.allocated_size
            /\ max_ptr = a.max_ptr
            /\ pages = a.pages
    IN  /\ start(init)
        /\ slices = [p \in {} |-> 0]
        /\ n_reallocs = 0
        /\ last_op = OpRec("init", "none", {}, EMPTY_PTR)
        /\ written = [p \in {} |-> 0]
        /\ overrun = FALSE
        /\ unwound = FALSE
        /\ max_allocation_pages = DEFAULT_MAX_ALLOCATION_PAGES
        /\ max_grow_pages = DEFAULT_MAX_GROW_PAGES
        /\ on_low_stable_memory_callback_executed = FALSE
        /\ custom_data_ptrs = [i \in 0 .. CUSTOM_DATA_PTRS_COUNT - 1 |-> EMPTY_PTR]
        /\ prologue = [o \in PrologueOffsets |-> 0]
        /\ live = TRUE
        /\ stored = <<>>
        /\ n_settings = 0
        /\ low_memory_triggers = 0

\* allocator calls are made on a live allocator, and are followed until a
\* copy has overwritten block headers with client bytes or a panic has
\* unwound out of a call
Usable == live /\ ~overrun /\ ~unwound

\* the calls that take memory or change a setting are followed on the
\* allocator init() made
Fresh == Usable /\ stored = <<>>

\* the client's slices with slice p dropped / slice p of payload n added
DropSlice(sl, p) == [q \in DOMAIN sl \ {p} |-> sl[q]]
AddSlice(sl, p, n) == [q \in DOMAIN sl \cup {p} |-> IF q = p THEN n ELSE sl[q]]

\* the positional cases of the ejections a deallocate of (ptr, size) makes
MergeEjects(a, ptr, size) ==
    LET cases(prev, next) ==
            (IF prev = EMPTY_PTR THEN {}
             ELSE {EjectCase(a, get_seg_class_id(a.blocks[prev].size), prev)})
            \cup
            (IF next = EMPTY_PTR THEN {}
             ELSE {EjectCase(IF prev = EMPTY_PTR THEN a
                             ELSE eject_from_freelist(
                                      a, get_seg_class_id(a.blocks[prev].size), prev),
                             get_seg_class_id(a.blocks[next].size), next)})
    IN  cases(prev_neighbor_if_free(a, ptr), next_neighbor_if_free(a, ptr, size))

\* allocate(requested); the client fills the payload it gets.  A failed
\* allocate traps, the allocator being as pop_free_block left it.
Allocate(requested) ==
    /\ Fresh
    /\ Cardinality(DOMAIN slices) < MaxSlices
    /\ UNCHANGED <<n_reallocs, overrun, unwound, tree_vars, coll_vars, setting_vars>>
    /\ LET done(r) ==
               IF r.ok
               THEN /\ SetAllocator(r.a)
                    /\ slices' = AddSlice(slices, r.ptr, r.size)
                    /\ written' = AddSlice(written, r.ptr, r.size)
                    /\ last_op' = OpRec("allocate", r.path,
                                        IF r.eject = "none" THEN {} ELSE {r.eject}, r.ptr)
               ELSE /\ SetAllocator(r.a)
                    /\ UNCHANGED <<slices, written>>
                    /\ last_op' = OpRec("allocate", "oom", {}, EMPTY_PTR)
       IN  done(allocate(AllocatorState, requested))

Deallocate(ptr) ==
    /\ Usable
    /\ ptr \in DOMAIN slices
    /\ UNCHANGED <<n_reallocs, overrun, unwound, tree_vars, coll_vars, setting_vars>>
    /\ written' = DropSlice(written, ptr)
    /\ LET done(a) == SetAllocator(a)
       IN  done(deallocate(AllocatorState, ptr, slices[ptr]))
    /\ slices' = DropSlice(slices, ptr)
    /\ last_op' = OpRec("deallocate", MergeCase(AllocatorState, ptr, slices[ptr]),
                        MergeEjects(AllocatorState, ptr, slices[ptr]), ptr)

\* how a trap ends: the host rolls the call back (the wasm build), or the
\* panic leaves the allocator as the call left it (the native build)
TrapEnds == {"rolled_back", "kept"}

\* what a copy longer than the payload it is written to does: write_bytes
\* refuses it and panics, or stable memory takes the bytes
CopyBeyond == {"refused", "written"}

Min(x, y) == IF x <= y THEN x ELSE y

\* what a reallocate did, and what it was given: the slice, the size asked
\* for, and the next neighbor of the slice when that is a free block
ReallocRec(path, ptr, given) ==
    [op |-> "reallocate", path |-> path, eject |-> {}, ptr |-> ptr, given |-> given]

Given(ptr, new_size, next) ==
    [ptr |-> ptr, size |-> slices[ptr], new_size |-> new_size, next |-> next,
     next_size |-> IF next = EMPTY_PTR THEN 0 ELSE blocks[next].size]

\* reallocate(slice at ptr, new_size).  When the block was relocated the
\* old payload, slices[ptr] bytes long, is written to the new block.
Reallocate(ptr, new_size, trap, copy) ==
    /\ Fresh
    /\ ptr \in DOMAIN slices
    /\ n_reallocs < MaxReallocs
    /\ n_reallocs' = n_reallocs + 1
    /\ UNCHANGED <<tree_vars, coll_vars, setting_vars>>
    /\ LET given ==
               Given(ptr, new_size, next_neighbor_if_free(AllocatorState, ptr, slices[ptr]))
           returned(r, a, path, beyond) ==
               /\ SetAllocator(a)
               /\ slices' = AddSlice(DropSlice(slices, ptr), r.ptr, r.size)
               /\ written' = AddSlice(DropSlice(written, ptr), r.ptr,
                                      Min(written[ptr], r.size))
               /\ overrun' = beyond
               /\ UNCHANGED unwound
               /\ last_op' = ReallocRec(path, r.ptr, given)
           trapped(a, path) ==
               /\ IF trap = "rolled_back"
                  THEN UNCHANGED <<blocks, seg_class_heads, seg_class_tails, free_size,
                                   allocated_size, max_ptr, pages, slices, written,
                                   unwound>>
                  ELSE /\ SetAllocator(a)
                       /\ slices' = DropSlice(slices, ptr)
                       /\ written' = DropSlice(written, ptr)
                       /\ unwound' = TRUE
               /\ UNCHANGED overrun
               /\ last_op' = ReallocRec(path, EMPTY_PTR, given)
           done(r) ==
               IF ~r.ok THEN trapped(r.a, "oom")
               ELSE IF r.path # "moved" \/ slices[ptr] <= r.size
               THEN returned(r, r.a, r.path, FALSE)
               ELSE IF copy = "written"
                       /\ r.ptr + BLOCK_META_SIZE + slices[ptr] <= r.a.max_ptr
               THEN returned(r, write_bytes(r.a, r.ptr, slices[ptr]), "moved_beyond", TRUE)
               ELSE trapped(r.a, "copy_refused")
       IN  done(reallocate(AllocatorState, ptr, slices[ptr], new_size))

AllocDeallocNext ==
    \/ \E requested \in AllocSizes : Allocate(requested)
    \/ \E ptr \in DOMAIN slices : Deallocate(ptr)

FitNext ==
    \/ \E requested \in FitSizes :
          Cardinality(DOMAIN slices) < MaxFitSlices /\ Allocate(requested)
    \/ \E ptr \in DOMAIN slices : Deallocate(ptr)

AllocNext ==
    \/ \E requested \in AllocSizes : Allocate(requested)
    \/ \E ptr \in DOMAIN slices : Deallocate(ptr)
    \/ \E ptr \in DOMAIN slices : \E new_size \in ReallocSizes :
          \E trap \in TrapEnds : \E copy \in CopyBeyond :
              Reallocate(ptr, new_size, trap, copy)

(***************************************************************************)
(* The allocator's setters, store and reinit.                              *)
(***************************************************************************)
\* a setter leaves everything but its field alone
Setting ==
    /\ Fresh
    /\ n_settings < MaxSettings
    /\ n_settings' = n_settings + 1
    /\ UNCHANGED <<blocks, seg_class_heads, seg_class_tails, free_size, allocated_size,
                   max_ptr, pages, slices, n_reallocs, written, overrun, unwound,
                   prologue, live, stored, low_memory_triggers, tree_vars, coll_vars>>

set_max_grow_pages(max_pages) ==
    /\ Setting
    /\ max_grow_pages' = max_pages
    /\ last_op' = OpRec("set_max_grow_pages", "none", {}, EMPTY_PTR)
    /\ UNCHANGED <<max_allocation_pages, on_low_stable_memory_callback_executed,
                   custom_data_ptrs>>

set_max_allocation_pages(n) ==
    /\ Setting
    /\ max_allocation_pages' = n
    /\ last_op' = OpRec("set_max_allocation_pages", "none", {}, EMPTY_PTR)
    /\ UNCHANGED <<max_grow_pages, on_low_stable_memory_callback_executed,
                   custom_data_ptrs>>

set_on_low_executed_flag(flag) ==
    /\ Setting
    /\ on_low_stable_memory_callback_executed' = flag
    /\ last_op' = OpRec("set_on_low_executed_flag", "none", {}, EMPTY_PTR)
    /\ UNCHANGED <<max_allocation_pages, max_grow_pages, custom_data_ptrs>>

set_custom_data_ptr(idx, ptr) ==
    /\ Setting
    /\ custom_data_ptrs' = [custom_data_ptrs EXCEPT ![idx] = ptr]
    /\ last_op' = OpRec("set_custom_data_ptr", "none", {}, ptr)
    /\ UNCHANGED <<max_allocation_pages, max_grow_pages,
                   on_low_stable_memory_callback_executed>>

\* store(self): the header is written and the value is no more
Store ==
    /\ Usable
    /\ prologue' = store(Fields)
    /\ stored' = <<Fields>>
    /\ live' = FALSE
    /\ SetFields(NoFields)
    /\ max_ptr' = 0
    /\ last_op' = OpRec("store", "none", {}, EMPTY_PTR)
    /\ UNCHANGED <<blocks, pages, slices, n_reallocs, written, overrun, unwound,
                   n_settings, low_memory_triggers, tree_vars, coll_vars>>

\* reinit(offset), after an upgrade: it panics unless the header starts with
\* MAGIC
Reinit ==
    /\ ~live
    /\ prologue[0] = MAGIC
    /\ SetFields(reinit(prologue, blocks))
    /\ max_ptr' = pages * PAGE_SIZE_BYTES
    /\ live' = TRUE
    /\ last_op' = OpRec("reinit", "none", {}, EMPTY_PTR)
    /\ UNCHANGED <<blocks, pages, slices, n_reallocs, written, overrun, unwound,
                   prologue, stored, n_settings, low_memory_triggers, tree_vars, coll_vars>>

\* handle_free_buffer(), the step that keeps max_allocation_pages of memory
\* free or tells the host that memory is low
HandleFreeBuffer ==
    /\ Usable
    /\ LET done(r) ==
               /\ SetAllocator(r.a)
               /\ on_low_stable_memory_callback_executed' = r.hook.flag
               /\ low_memory_triggers' =
                      low_memory_triggers + (IF r.hook.triggered THEN 1 ELSE 0)
               /\ last_op' = OpRec("handle_free_buffer",
                                   IF r.hook.triggered THEN "triggered" ELSE r.path,
                                   {}, EMPTY_PTR)
       IN  done(handle_free_buffer(AllocatorState, max_allocation_pages,
                                   max_grow_pages,
                                   on_low_stable_memory_callback_executed))
    /\ UNCHANGED <<slices, n_reallocs, written, overrun, unwound,
                   max_allocation_pages, max_grow_pages, custom_data_ptrs,
                   prologue, live, stored, n_settings, tree_vars,
                   coll_vars>>

LowMemoryNext ==
    \/ \E requested \in PersistSizes : Allocate(requested)
    \/ \E ptr \in DOMAIN slices : Deallocate(ptr)
    \/ \E max_pages \in GrowCaps : set_max_grow_pages(max_pages)
    \/ \E n \in AllocationCaps : set_max_allocation_pages(n)
    \/ HandleFreeBuffer
    \/ Store
    \/ Reinit

GrowCapNext ==
    \/ \E requested \in AllocSizes : Allocate(requested)
    \/ \E ptr \in DOMAIN slices : Deallocate(ptr)
    \/ \E max_pages \in GrowCaps : set_max_grow_pages(max_pages)

PersistNext ==
    \/ \E requested \in PersistSizes : Allocate(requested)
    \/ \E ptr \in DOMAIN slices : Deallocate(ptr)
    \/ \E max_pages \in GrowCaps : set_max_grow_pages(max_pages)
    \/ \E n \in AllocationCaps : set_max_allocation_pages(n)
    \/ \E flag \in BOOLEAN : set_on_low_executed_flag(flag)
    \/ \E idx \in CustomSlots : \E ptr \in DOMAIN slices : set_custom_data_ptr(idx, ptr)
    \/ Store
    \/ Reinit

(***************************************************************************)
(* B+-tree nodes.  A node is [tag, len, keys, slots]: CAPACITY key slots   *)
(* and CHILDREN_CAPACITY further slots, which hold the values of a leaf or *)
(* the child offsets of an internal node.  Both kinds keep the tag, the    *)
(* length and the keys at the same offsets, and with 8-byte values the     *)
(* value slot i of a leaf lies where child slot i of an internal node does,*)
(* so a node read through a handle of the other kind yields its own slots. *)
(* Indices are the code's (from 0); sequences are indexed from 1.          *)
(***************************************************************************)
Keys == 1 .. MaxKey

\* the values the client stores under key k
Values(k) == {100 + k} \cup (IF k <= RevaluedKeys THEN {200 + k} ELSE {})

NodePtrs == 1 .. MaxNodes

EmptySlots(n) == [j \in 1 .. n |-> UNINIT]

Put(h, p, node) == [q \in DOMAIN h \cup {p} |-> IF q = p THEN node ELSE h[q]]

\* the offset allocate() returns for a new node: the lowest one not in use
NewPtr(h) == CHOOSE p \in NodePtrs \ DOMAIN h : \A q \in NodePtrs \ DOMAIN h : p <= q

\* LeafBTreeNode::create()
create_leaf(h, p) ==
    Put(h, p, [tag |-> NODE_TYPE_LEAF, len |-> 0,
               keys |-> EmptySlots(CAPACITY), slots |-> EmptySlots(CHILDREN_CAPACITY)])

\* InternalBTreeNode::create(key, left child, right child)
create_internal(h, p, key, left, right) ==
    Put(h, p, [tag |-> NODE_TYPE_INTERNAL, len |-> 1,
               keys |-> [EmptySlots(CAPACITY) EXCEPT ![1] = key],
               slots |-> [EmptySlots(CHILDREN_CAPACITY) EXCEPT ![1] = left, ![2] = right]])

\* destroy(): the node's block is deallocated
destroy(h, p) == [q \in DOMAIN h \ {p} |-> h[q]]

\* the array s with x inserted at idx, the entries idx .. len - 1 moved up
SeqInsert(s, idx, x, n) ==
    [j \in 1 .. Len(s) |->
        IF j - 1 < idx THEN s[j]
        ELSE IF j - 1 = idx THEN x
        ELSE IF j - 1 <= n THEN s[j - 1]
        ELSE s[j]]

\* the array s with the entry at idx removed, idx + 1 .. len - 1 moved down
SeqRemove(s, idx, n) ==
    [j \in 1 .. Len(s) |->
        IF j - 1 < idx THEN s[j]
        ELSE IF j - 1 < n - 1 THEN (IF j + 1 <= Len(s) THEN s[j + 1] ELSE UNINIT)
        ELSE s[j]]

read_len(h, p) == h[p].len
read_key(h, p, idx) == h[p].keys[idx + 1]
read_slot(h, p, idx) == IF idx + 1 <= CHILDREN_CAPACITY THEN h[p].slots[idx + 1] ELSE UNINIT
write_len(h, p, n) == [h EXCEPT ![p].len = n]
write_key(h, p, idx, key) == [h EXCEPT ![p].keys[idx + 1] = key]
write_slot(h, p, idx, x) == [h EXCEPT ![p].slots[idx + 1] = x]
insert_key(h, p, idx, key, n) == [h EXCEPT ![p].keys = SeqInsert(@, idx, key, n)]
insert_slot(h, p, idx, x, n) == [h EXCEPT ![p].slots = SeqInsert(@, idx, x, n)]
remove_key(h, p, idx, n) == [h EXCEPT ![p].keys = SeqRemove(@, idx, n)]
remove_slot(h, p, idx, n) == [h EXCEPT ![p].slots = SeqRemove(@, idx, n)]

\* LeafBTreeNode::remove_by_idx(idx, len): the key and the value at idx leave
remove_by_idx(h, p, idx, n) == remove_slot(remove_key(h, p, idx, n), p, idx, n)

\* binary_search(key, len) over the first len keys: Ok(idx) as [found, idx],
\* Err(idx) with idx the number of keys below `key`
binary_search(h, p, n, key) ==
    LET result(hits) ==
            IF hits # {}
            THEN [found |-> TRUE, idx |-> (CHOOSE i \in hits : \A j \in hits : i <= j) - 1]
            ELSE [found |-> FALSE,
                  idx |-> Cardinality({i \in 1 .. n : i <= CAPACITY /\ h[p].keys[i] < key})]
    IN  result({i \in 1 .. n : i <= CAPACITY /\ h[p].keys[i] = key})

\* LeafBTreeNode::steal_from_left: the last pair of the left sibling becomes
\* the first pair of the leaf and its key the parent's separator
leaf_steal_from_left(h, leaf, left, left_len, parent, parent_idx) ==
    LET move(k, v) ==
            insert_slot(
                insert_key(
                    write_key(write_len(h, left, left_len - 1), parent, parent_idx, k),
                    leaf, 0, k, MIN_LEN_AFTER_SPLIT),
                leaf, 0, v, MIN_LEN_AFTER_SPLIT)
    IN  move(read_key(h, left, left_len - 1), read_slot(h, left, left_len - 1))

\* LeafBTreeNode::steal_from_right: the first pair of the right sibling becomes
\* the last pair of the leaf; the sibling's new first key is the separator
leaf_steal_from_right(h, leaf, right, right_len, parent, parent_idx) ==
    LET separate(h1) == write_key(h1, parent, parent_idx, read_key(h1, right, 0))
        move(k, v) ==
            separate(
                write_slot(
                    write_key(
                        write_len(remove_by_idx(h, right, 0, right_len), right, right_len - 1),
                        leaf, MIN_LEN_AFTER_SPLIT, k),
                    leaf, MIN_LEN_AFTER_SPLIT, v))
    IN  move(read_key(h, right, 0), read_slot(h, right, 0))

\* the first `kept` entries of a followed by the first `taken` entries of b
Joined(a, b, kept, taken) ==
    [j \in 1 .. Len(a) |->
        IF j <= kept THEN a[j] ELSE IF j <= kept + taken THEN b[j - kept] ELSE a[j]]

\* LeafBTreeNode::merge_min_len: the pairs of the right leaf are appended to
\* the leaf's MIN_LEN_AFTER_SPLIT pairs and the right leaf is destroyed
leaf_merge_min_len(h, leaf, right) ==
    destroy([h EXCEPT ![leaf].keys = Joined(@, h[right].keys, MIN_LEN_AFTER_SPLIT,
                                            MIN_LEN_AFTER_SPLIT),
                      ![leaf].slots = Joined(@, h[right].slots, MIN_LEN_AFTER_SPLIT,
                                             MIN_LEN_AFTER_SPLIT)],
            right)

\* the entries of s from index `from` on, moved to the front
Upper(s, from) ==
    [j \in 1 .. Len(s) |-> IF j + from <= Len(s) THEN s[j + from] ELSE UNINIT]

\* LeafBTreeNode::split_max_len(right_biased): a new leaf at p takes the upper
\* B pairs of the full leaf (right_biased) or the upper B - 1
leaf_split_max_len(h, leaf, right_biased, p) ==
    Put(h, p, [tag |-> NODE_TYPE_LEAF, len |-> 0,
               keys |-> Upper(h[leaf].keys,
                              IF right_biased THEN MIN_LEN_AFTER_SPLIT ELSE B),
               slots |-> Upper(h[leaf].slots,
                               IF right_biased THEN MIN_LEN_AFTER_SPLIT ELSE B)])

\* InternalBTreeNode::steal_from_left: the parent's separator comes down as
\* the node's first key, the left sibling's last key goes up, and the left
\* sibling's last child becomes the node's first child
steal_from_left(h, node, left, left_len, parent, parent_idx) ==
    LET move(pk, lk, lc) ==
            write_len(
                insert_slot(
                    insert_key(write_key(h, parent, parent_idx, lk),
                               node, 0, pk, MIN_LEN_AFTER_SPLIT),
                    node, 0, lc, CHILDREN_MIN_LEN_AFTER_SPLIT),
                left, left_len - 1)
    IN  move(read_key(h, parent, parent_idx), read_key(h, left, left_len - 1),
             read_slot(h, left, left_len))

\* InternalBTreeNode::steal_from_right: the parent's separator comes down as
\* the node's last key, the right sibling's first key goes up, and the right
\* sibling's first child becomes the node's last child
steal_from_right(h, node, right, right_len, parent, parent_idx) ==
    LET move(pk, rk, rc) ==
            write_slot(
                write_key(
                    write_key(
                        write_len(
                            remove_slot(remove_key(h, right, 0, right_len),
                                        right, 0, right_len + 1),
                            right, right_len - 1),
                        parent, parent_idx, rk),
                    node, MIN_LEN_AFTER_SPLIT, pk),
                node, CHILDREN_MIN_LEN_AFTER_SPLIT, rc)
    IN  move(read_key(h, parent, parent_idx), read_key(h, right, 0),
             read_slot(h, right, 0))

\* InternalBTreeNode::merge_min_len(mid, right): mid and the keys of the right
\* node follow the node's MIN_LEN_AFTER_SPLIT keys, the right node's children
\* follow its B children, and the right node is destroyed
merge_min_len(h, node, mid, right) ==
    destroy([h EXCEPT ![node].keys =
                          Joined([@ EXCEPT ![B] = mid], h[right].keys, B,
                                 MIN_LEN_AFTER_SPLIT),
                      ![node].slots =
                          Joined(@, h[right].slots, CHILDREN_MIN_LEN_AFTER_SPLIT,
                                 CHILDREN_MIN_LEN_AFTER_SPLIT)],
            right)

\* InternalBTreeNode::split_max_len(): a new node at p takes the keys after
\* the middle one and the upper B children; the middle key is read_key(B - 1)
split_max_len(h, node, p) ==
    Put(h, p, [tag |-> NODE_TYPE_INTERNAL, len |-> 0,
               keys |-> Upper(h[node].keys, B),
               slots |-> Upper(h[node].slots, CHILDREN_MIN_LEN_AFTER_SPLIT)])

(***************************************************************************)
(* The map as a value: [heap, root, len, stack, fault].                    *)
(***************************************************************************)
TreeState ==
    [heap |-> heap, root |-> root, len |-> len, stack |-> stack, fault |-> fault]

\* a read of memory that holds no node: what the call does from there on is
\* not determined by the program, and the model does not follow it
Fault(t) == [t EXCEPT !.fault = "no_node"]

\* the map once the node at p has been read through a handle of kind `tag`
\* (the from_ptr of a node type is unchecked): a node of the other kind yields
\* its own bytes, and the call goes on with them
from_ptr(t, p, tag) ==
    IF p \in DOMAIN t.heap /\ t.heap[p].tag # tag
    THEN [t EXCEPT !.fault = "wrong_kind"]
    ELSE t

Frame(node, node_len, idx) == [node |-> node, len |-> node_len, idx |-> idx]

\* no internal node remembered by remove's descent
NoFin == [node |-> None, idx |-> 0]

clear_stack(t) == [t EXCEPT !.stack = <<>>]

peek_stack(t) == t.stack[Len(t.stack)]

pop_stack(t) == [t EXCEPT !.stack = SubSeq(@, 1, Len(@) - 1)]

get_or_create_root(t) ==
    IF t.root # None THEN t
    ELSE LET created(p) == [t EXCEPT !.heap = create_leaf(@, p), !.root = p]
         IN  created(NewPtr(t.heap))

\* the descent of insert and remove from the node at ptr to a leaf, a frame
\* pushed for every internal node passed: [t, leaf, fin], fin the last
\* internal node that holds the key
RECURSIVE Descend(_, _, _, _, _)
Descend(t, ptr, key, fin, fuel) ==
    IF ptr \notin DOMAIN t.heap \/ fuel = 0
    THEN [t |-> Fault(t), leaf |-> None, fin |-> fin]
    ELSE IF t.heap[ptr].tag = NODE_TYPE_LEAF
    THEN [t |-> t, leaf |-> ptr, fin |-> fin]
    ELSE LET down(node_len, child_idx, found) ==
                 Descend([t EXCEPT !.stack = Append(@, Frame(ptr, node_len, child_idx))],
                         read_slot(t.heap, ptr, child_idx), key,
                         IF found THEN [node |-> ptr, idx |-> child_idx - 1] ELSE fin,
                         fuel - 1)
             search(node_len, r) ==
                 down(node_len, IF r.found THEN r.idx + 1 ELSE r.idx, r.found)
         IN  search(read_len(t.heap, ptr),
                    binary_search(t.heap, ptr, read_len(t.heap, ptr), key))

(***************************************************************************)
(* remove                                                                  *)
(***************************************************************************)
\* remove_key(idx, n) followed by remove_child_ptr(child_idx, n + 1)
drop_entry(h, node, idx, child_idx, n) ==
    remove_slot(remove_key(h, node, idx, n), node, child_idx, n + 1)

\* has_right_sibling as the code computes it, in usize arithmetic
has_right_sibling(parent_idx, parent_len) ==
    parent_len = 0 \/ parent_idx < parent_len - 1

RECURSIVE handle_stack_after_merge(_, _, _)

\* handle_stack_after_merge, the node having a right sibling to steal from or
\* to merge with
rebalance_with_right(t, node, idx_to_remove, child_idx_to_remove, parent, parent_idx, right) ==
    IF right \notin DOMAIN t.heap THEN Fault(t)
    ELSE IF read_len(t.heap, right) > MIN_LEN_AFTER_SPLIT
    THEN [t EXCEPT !.heap =
             drop_entry(steal_from_right(@, node, right, read_len(@, right),
                                         parent, parent_idx),
                        node, idx_to_remove, child_idx_to_remove, B)]
    ELSE handle_stack_after_merge(
             [t EXCEPT !.heap =
                 write_len(
                     drop_entry(merge_min_len(@, node, read_key(@, parent, parent_idx),
                                              right),
                                node, idx_to_remove, child_idx_to_remove, CAPACITY),
                     node, CAPACITY - 1)],
             TRUE, node)

\* handle_stack_after_merge, the node having a left sibling
rebalance_with_left(t, node, idx_to_remove, child_idx_to_remove, pf, left) ==
    IF left \notin DOMAIN t.heap THEN Fault(t)
    ELSE IF read_len(t.heap, left) > MIN_LEN_AFTER_SPLIT
    THEN [t EXCEPT !.heap =
             drop_entry(steal_from_left(@, node, left, read_len(@, left),
                                        pf.node, pf.idx - 1),
                        node, idx_to_remove + 1, child_idx_to_remove + 1, B)]
    ELSE IF has_right_sibling(pf.idx, pf.len)
    THEN rebalance_with_right(
             from_ptr(t, read_slot(t.heap, pf.node, pf.idx + 1), NODE_TYPE_INTERNAL),
             node, idx_to_remove, child_idx_to_remove,
             pf.node, pf.idx, read_slot(t.heap, pf.node, pf.idx + 1))
    ELSE handle_stack_after_merge(
             [t EXCEPT !.heap =
                 write_len(
                     drop_entry(merge_min_len(@, left, read_key(@, pf.node, pf.idx - 1),
                                              node),
                                left, idx_to_remove + B, child_idx_to_remove + B,
                                CAPACITY),
                     left, CAPACITY - 1)],
             FALSE, left)

\* one turn of the loop of handle_stack_after_merge: f is the frame popped,
\* t the map after the pop
rebalance_frame(t, prev_node, f, idx_to_remove, child_idx_to_remove) ==
    IF f.node \notin DOMAIN t.heap THEN Fault(t)
    ELSE IF f.len > MIN_LEN_AFTER_SPLIT \/ (t.stack = <<>> /\ f.len # 1)
    THEN [t EXCEPT !.heap =
             write_len(drop_entry(@, f.node, idx_to_remove, child_idx_to_remove, f.len),
                       f.node, f.len - 1)]
    ELSE IF t.stack = <<>>
    THEN [t EXCEPT !.heap = destroy(@, f.node), !.root = prev_node]
    ELSE IF peek_stack(t).node \notin DOMAIN t.heap THEN Fault(t)
    ELSE IF peek_stack(t).idx > 0
    THEN rebalance_with_left(
             from_ptr(t, read_slot(t.heap, peek_stack(t).node, peek_stack(t).idx - 1),
                      NODE_TYPE_INTERNAL),
             f.node, idx_to_remove, child_idx_to_remove, peek_stack(t),
             read_slot(t.heap, peek_stack(t).node, peek_stack(t).idx - 1))
    ELSE rebalance_with_right(
             from_ptr(t, read_slot(t.heap, peek_stack(t).node, 1), NODE_TYPE_INTERNAL),
             f.node, idx_to_remove, child_idx_to_remove, peek_stack(t).node, 0,
             read_slot(t.heap, peek_stack(t).node, 1))

handle_stack_after_merge(t, merged_right, prev_node) ==
    IF t.stack = <<>> THEN t
    ELSE rebalance_frame(pop_stack(t), prev_node, peek_stack(t),
                         IF merged_right THEN peek_stack(t).idx
                         ELSE peek_stack(t).idx - 1,
                         IF merged_right THEN peek_stack(t).idx + 1
                         ELSE peek_stack(t).idx)

\* the remembered internal key rewritten with the leaf's first key
write_found_internal_node(h, fin, leaf) ==
    IF fin.node = None THEN h ELSE write_key(h, fin.node, fin.idx, read_key(h, leaf, 0))

\* remove, the leaf at minimum length having a right sibling: [t, ret]
remove_with_right(t, leaf, fin, idx, parent, parent_idx, right) ==
    IF right \notin DOMAIN t.heap THEN [t |-> Fault(t), ret |-> None]
    ELSE IF read_len(t.heap, right) > MIN_LEN_AFTER_SPLIT
    THEN [t |-> [t EXCEPT !.stack = <<>>,
                          !.heap = write_found_internal_node(
                                       remove_by_idx(
                                           leaf_steal_from_right(@, leaf, right,
                                               read_len(@, right), parent, parent_idx),
                                           leaf, idx, B),
                                       fin, leaf)],
          ret |-> read_slot(t.heap, leaf, idx)]
    ELSE [t |-> handle_stack_after_merge(
                    [t EXCEPT !.heap =
                        write_found_internal_node(
                            write_len(
                                remove_by_idx(leaf_merge_min_len(@, leaf, right),
                                              leaf, idx, CAPACITY - 1),
                                leaf, CAPACITY - 2),
                            fin, leaf)],
                    TRUE, leaf),
          ret |-> read_slot(t.heap, leaf, idx)]

\* remove, the leaf at minimum length having a left sibling: [t, ret]
remove_with_left(t, leaf, fin, idx, pf, left) ==
    IF left \notin DOMAIN t.heap THEN [t |-> Fault(t), ret |-> None]
    ELSE IF read_len(t.heap, left) > MIN_LEN_AFTER_SPLIT
    THEN [t |-> [t EXCEPT !.stack = <<>>,
                          !.heap = write_found_internal_node(
                                       remove_by_idx(
                                           leaf_steal_from_left(@, leaf, left,
                                               read_len(@, left), pf.node, pf.idx - 1),
                                           leaf, idx + 1, B),
                                       fin, leaf)],
          ret |-> read_slot(t.heap, leaf, idx)]
    ELSE IF has_right_sibling(pf.idx, pf.len)
    THEN remove_with_right(
             from_ptr(t, read_slot(t.heap, pf.node, pf.idx + 1), NODE_TYPE_LEAF),
             leaf, fin, idx, pf.node, pf.idx, read_slot(t.heap, pf.node, pf.idx + 1))
    ELSE [t |-> handle_stack_after_merge(
                    [t EXCEPT !.heap =
                        write_len(
                            remove_by_idx(leaf_merge_min_len(@, left, leaf),
                                          left, idx + MIN_LEN_AFTER_SPLIT, CAPACITY - 1),
                            left, CAPACITY - 2)],
                    FALSE, left),
          ret |-> read_slot(t.heap, leaf, idx)]

\* remove once the key is found at idx of the leaf; t.len is already lowered
remove_found(t, leaf, fin, leaf_len, idx) ==
    IF leaf_len > MIN_LEN_AFTER_SPLIT
    THEN [t |-> [t EXCEPT !.stack = <<>>,
                          !.heap = write_found_internal_node(
                                       write_len(remove_by_idx(@, leaf, idx, leaf_len),
                                                 leaf, leaf_len - 1),
                                       fin, leaf)],
          ret |-> read_slot(t.heap, leaf, idx)]
    ELSE IF t.stack = <<>>
    THEN [t |-> [t EXCEPT !.heap = write_len(remove_by_idx(@, leaf, idx, leaf_len),
                                             leaf, leaf_len - 1)],
          ret |-> read_slot(t.heap, leaf, idx)]
    ELSE IF peek_stack(t).idx > 0
    THEN remove_with_left(
             from_ptr(t, read_slot(t.heap, peek_stack(t).node, peek_stack(t).idx - 1),
                      NODE_TYPE_LEAF),
             leaf, fin, idx, peek_stack(t),
             read_slot(t.heap, peek_stack(t).node, peek_stack(t).idx - 1))
    ELSE remove_with_right(
             from_ptr(t, read_slot(t.heap, peek_stack(t).node, 1), NODE_TYPE_LEAF),
             leaf, fin, idx, peek_stack(t).node, 0,
             read_slot(t.heap, peek_stack(t).node, 1))

\* the deepest descent the model follows
MaxDepth == MaxNodes

\* remove(key): [t, ret], ret the value removed or None
remove(t0, key) ==
    LET search(t, leaf, fin, leaf_len, r) ==
            IF ~r.found THEN [t |-> t, ret |-> None]
            ELSE remove_found([t EXCEPT !.len = @ - 1], leaf, fin, leaf_len, r.idx)
        at_leaf(d) ==
            IF d.leaf = None THEN [t |-> d.t, ret |-> None]
            ELSE search(d.t, d.leaf, d.fin, read_len(d.t.heap, d.leaf),
                        binary_search(d.t.heap, d.leaf, read_len(d.t.heap, d.leaf), key))
        from_root(t) == at_leaf(Descend(t, t.root, key, NoFin, MaxDepth))
    IN  from_root(get_or_create_root(t0))

(***************************************************************************)
(* insert                                                                  *)
(***************************************************************************)
\* insert_leaf with the pair of insertion index B kept in the old leaf
insert_leaf_left_at_B(h, leaf, key, value, p) ==
    LET place(leaf_len, r) ==
            IF r.found
            THEN [kind |-> "replaced", h |-> write_slot(h, leaf, r.idx, value),
                  prev |-> read_slot(h, leaf, r.idx), right |-> None]
            ELSE IF leaf_len < CAPACITY
            THEN [kind |-> "inserted",
                  h |-> write_len(
                            insert_slot(insert_key(h, leaf, r.idx, key, leaf_len),
                                        leaf, r.idx, value, leaf_len),
                            leaf, leaf_len + 1),
                  prev |-> None, right |-> None]
            ELSE [kind |-> "split",
                  h |-> write_len(
                            write_len(
                                IF r.idx <= B
                                THEN insert_slot(
                                         insert_key(leaf_split_max_len(h, leaf, TRUE, p),
                                                    leaf, r.idx, key, MIN_LEN_AFTER_SPLIT),
                                         leaf, r.idx, value, MIN_LEN_AFTER_SPLIT)
                                ELSE insert_slot(
                                         insert_key(leaf_split_max_len(h, leaf, FALSE, p),
                                                    p, r.idx - B, key, MIN_LEN_AFTER_SPLIT),
                                         p, r.idx - B, value, MIN_LEN_AFTER_SPLIT),
                                leaf, B),
                            p, B),
                  prev |-> None, right |-> p]
    IN  place(read_len(h, leaf), binary_search(h, leaf, read_len(h, leaf), key))

\* insert_leaf: [kind, h, prev, right]; kind is "replaced" for Ok(prev),
\* "inserted" for Err(None) and "split" for Err(Some(right)), the new leaf
\* being allocated at p
insert_leaf(h, leaf, key, value, p) ==
    LET place(leaf_len, r) ==
            IF r.found
            THEN [kind |-> "replaced", h |-> write_slot(h, leaf, r.idx, value),
                  prev |-> read_slot(h, leaf, r.idx), right |-> None]
            ELSE IF leaf_len < CAPACITY
            THEN [kind |-> "inserted",
                  h |-> write_len(
                            insert_slot(insert_key(h, leaf, r.idx, key, leaf_len),
                                        leaf, r.idx, value, leaf_len),
                            leaf, leaf_len + 1),
                  prev |-> None, right |-> None]
            ELSE [kind |-> "split",
                  h |-> write_len(
                            write_len(
                                IF r.idx < B
                                THEN insert_slot(
                                         insert_key(leaf_split_max_len(h, leaf, TRUE, p),
                                                    leaf, r.idx, key, MIN_LEN_AFTER_SPLIT),
                                         leaf, r.idx, value, MIN_LEN_AFTER_SPLIT)
                                ELSE insert_slot(
                                         insert_key(leaf_split_max_len(h, leaf, FALSE, p),
                                                    p, r.idx - B, key, MIN_LEN_AFTER_SPLIT),
                                         p, r.idx - B, value, MIN_LEN_AFTER_SPLIT),
                                leaf, B),
                            p, B),
                  prev |-> None, right |-> p]
    IN  place(read_len(h, leaf), binary_search(h, leaf, read_len(h, leaf), key))

\* insert_internal: [split, h, right, mid]; when the node is full a new node
\* at p takes its upper half and mid is the key that moves up
insert_internal(h, node, n, idx, key, child_ptr, p) ==
    IF n < CAPACITY
    THEN [split |-> FALSE,
          h |-> write_len(
                    insert_slot(insert_key(h, node, idx, key, n),
                                node, idx + 1, child_ptr, n + 1),
                    node, n + 1),
          right |-> None, mid |-> UNINIT]
    ELSE [split |-> TRUE,
          h |-> IF idx <= MIN_LEN_AFTER_SPLIT
                THEN write_len(
                         write_len(
                             insert_slot(
                                 insert_key(split_max_len(h, node, p),
                                            node, idx, key, MIN_LEN_AFTER_SPLIT),
                                 node, idx + 1, child_ptr, B),
                             node, B),
                         p, MIN_LEN_AFTER_SPLIT)
                ELSE write_len(
                         write_len(
                             insert_slot(
                                 insert_key(split_max_len(h, node, p),
                                            p, idx - B, key, MIN_LEN_AFTER_SPLIT),
                                 p, idx - B + 1, child_ptr, B),
                             node, MIN_LEN_AFTER_SPLIT),
                         p, B),
          right |-> p, mid |-> read_key(h, node, MIN_LEN_AFTER_SPLIT)]

\* the while loop of insert over the stack, and the new root when the stack
\* runs out: (key_to_index, ptr) is the pair still to be inserted above node
RECURSIVE insert_above(_, _, _, _)
insert_above(t, key_to_index, ptr, node) ==
    IF t.stack = <<>>
    THEN [t EXCEPT !.heap = create_internal(@, NewPtr(@), key_to_index, node, ptr),
                   !.root = NewPtr(t.heap),
                   !.len = @ + 1]
    ELSE IF peek_stack(t).node \notin DOMAIN t.heap THEN Fault(t)
    ELSE LET absorb(t1, parent, r) ==
                 IF r.split
                 THEN insert_above([t1 EXCEPT !.heap = r.h], r.mid, r.right, parent)
                 ELSE [t1 EXCEPT !.heap = r.h, !.len = @ + 1]
         IN  absorb(pop_stack(t), peek_stack(t).node,
                    insert_internal(t.heap, peek_stack(t).node, peek_stack(t).len,
                                    peek_stack(t).idx, key_to_index, ptr, NewPtr(t.heap)))

\* insert(key, value): [t, ret], ret the previous value or None
insert(t0, key, value) ==
    LET finish(t, leaf, r) ==
            IF r.kind = "replaced"
            THEN [t |-> [t EXCEPT !.heap = r.h, !.stack = <<>>], ret |-> r.prev]
            ELSE IF r.kind = "inserted"
            THEN [t |-> [t EXCEPT !.heap = r.h, !.stack = <<>>, !.len = @ + 1],
                  ret |-> None]
            ELSE [t |-> insert_above([t EXCEPT !.heap = r.h],
                                     read_key(r.h, r.right, 0), r.right, leaf),
                  ret |-> None]
        at_leaf(d) ==
            IF d.leaf = None THEN [t |-> d.t, ret |-> None]
            ELSE finish(d.t, d.leaf,
                        insert_leaf(d.t.heap, d.leaf, key, value, NewPtr(d.t.heap)))
        from_root(t) == at_leaf(Descend(t, t.root, key, NoFin, MaxDepth))
    IN  from_root(get_or_create_root(t0))

(***************************************************************************)
(* get_copy / contains_key, read from the state                            *)
(***************************************************************************)
\* the result of a read that met memory holding no node
Undefined == -2

\* lookup(key, return_early) from the node at ptr: the value found, None, or
\* Undefined; with return_early a hit in an internal node answers at once
RECURSIVE lookup(_, _, _, _)
lookup(ptr, key, return_early, fuel) ==
    IF ptr \notin DOMAIN heap \/ fuel = 0 THEN Undefined
    ELSE LET at(r) ==
                 IF heap[ptr].tag = NODE_TYPE_LEAF
                 THEN (IF r.found THEN read_slot(heap, ptr, r.idx) ELSE None)
                 ELSE IF r.found /\ return_early THEN UNINIT
                 ELSE lookup(read_slot(heap, ptr, IF r.found THEN r.idx + 1 ELSE r.idx),
                             key, return_early, fuel - 1)
         IN  at(binary_search(heap, ptr, read_len(heap, ptr), key))

get_copy(key) == IF root = None THEN None ELSE lookup(root, key, FALSE, MaxDepth)

contains_key(key) ==
    IF root = None THEN FALSE ELSE lookup(root, key, TRUE, MaxDepth) # None

(***************************************************************************)
(* iter(): SBTreeMapIter and its reverse, read from the state.             *)
(***************************************************************************)
RECURSIVE iter_under(_, _, _)
RECURSIVE iter_children(_, _, _, _)

\* the pairs the iterator yields under the node at ptr: forward it descends
\* by child 0 and goes on with the next subtree when a leaf is exhausted,
\* backward it descends by the last child; <<Undefined, Undefined>> stands
\* for a step through an offset that holds no node
iter_under(ptr, backward, fuel) ==
    IF ptr \notin DOMAIN heap \/ fuel = 0 THEN << <<Undefined, Undefined>> >>
    ELSE IF heap[ptr].tag = NODE_TYPE_LEAF
    THEN [i \in 1 .. read_len(heap, ptr) |->
             IF backward
             THEN <<read_key(heap, ptr, read_len(heap, ptr) - i),
                    read_slot(heap, ptr, read_len(heap, ptr) - i)>>
             ELSE <<read_key(heap, ptr, i - 1), read_slot(heap, ptr, i - 1)>>]
    ELSE iter_children(ptr, 0, backward, fuel)

\* the pairs under the children of the internal node at ptr, the first i
\* children in the direction of the iteration already exhausted
iter_children(ptr, i, backward, fuel) ==
    IF i > read_len(heap, ptr) THEN <<>>
    ELSE iter_under(read_slot(heap, ptr,
                              IF backward THEN read_len(heap, ptr) - i ELSE i),
                    backward, fuel - 1)
         \o iter_children(ptr, i + 1, backward, fuel)

\* map.iter() collected
iter == IF root = None THEN <<>> ELSE iter_under(root, FALSE, MaxDepth)

\* map.iter().rev() collected
iter_rev == IF root = None THEN <<>> ELSE iter_under(root, TRUE, MaxDepth)

(***************************************************************************)
(* The map's state machine.                                                *)
(***************************************************************************)
\* the bytes past a node's length are not part of its value
forget_unused_tail(h) ==
    [p \in DOMAIN h |->
        [h[p] EXCEPT
            !.keys = [j \in 1 .. CAPACITY |-> IF j <= h[p].len THEN @[j] ELSE UNINIT],
            !.slots = [j \in 1 .. CHILDREN_CAPACITY |->
                          IF j <= h[p].len + (IF h[p].tag = NODE_TYPE_INTERNAL THEN 1 ELSE 0)
                          THEN @[j] ELSE UNINIT]]]

SetTree(t) ==
    /\ heap' = forget_unused_tail(t.heap)
    /\ root' = t.root
    /\ len' = t.len
    /\ stack' = t.stack
    /\ fault' = t.fault
    /\ calls_after_fault' = IF fault = "none" THEN 0 ELSE calls_after_fault + 1

TreeInit ==
    /\ heap = [p \in {} |-> 0]
    /\ root = None
    /\ len = 0
    /\ stack = <<>>
    /\ fault = "none"
    /\ calls_after_fault = 0
    /\ ref = [k \in {} |-> 0]

FreeNodes(h) == NodePtrs \ DOMAIN h

\* the calls the model follows: every call until a node is read through a
\* handle of the other kind, MaxCallsAfterFault calls from there on, and none
\* after a read of memory that holds no node
Followed ==
    \/ fault = "none"
    \/ fault = "wrong_kind" /\ calls_after_fault < MaxCallsAfterFault

Insert(key, value) ==
    /\ Followed
    /\ Cardinality(FreeNodes(heap)) >= MaxStack + 2
    /\ LET done(r) ==
               /\ Len(r.t.stack) <= MaxStack
               /\ SetTree(r.t)
       IN  done(insert(TreeState, key, value))
    /\ ref' = AddSlice(ref, key, value)
    /\ UNCHANGED <<alloc_vars, coll_vars>>

Remove(key) ==
    /\ Followed
    /\ Cardinality(FreeNodes(heap)) >= 1
    /\ LET done(r) ==
               /\ Len(r.t.stack) <= MaxStack
               /\ SetTree(r.t)
       IN  done(remove(TreeState, key))
    /\ ref' = DropSlice(ref, key)
    /\ UNCHANGED <<alloc_vars, coll_vars>>

TreeNext ==
    \/ \E key \in Keys : \E value \in Values(key) : Insert(key, value)
    \/ \E key \in Keys : Remove(key)

\* a map filled key by key in increasing order until it has three leaves, with
\* removes once it holds more than MaxWideKey - WideRemoves keys
WideKeys == 1 .. MaxWideKey

\* the key after the largest key of the map
NextKey == 1 + Cardinality({k \in WideKeys : \E j \in DOMAIN ref : k <= j})

WideNext ==
    \/ \E key \in WideKeys : \E value \in Values(key) :
           key = NextKey /\ Insert(key, value)
    \/ \E key \in WideKeys :
           /\ Cardinality(DOMAIN ref) > MaxWideKey - WideRemoves
           /\ Remove(key)

(***************************************************************************)
(* SHashMap: open addressing, linear probing, removal by back-shifting.    *)
(***************************************************************************)
DEFAULT_CAPACITY == 7

EMPTY == 0
OCCUPIED == 255

HashKeys == 1 .. MaxHashKey

\* the values the client stores under key k
HashMapValues(k) == {100 + k} \cup (IF k <= RevaluedKeys THEN {200 + k} ELSE {})

TablePtrs == 1 .. MaxTables

\* a slot of a zeroed table
ZeroedSlot == [flag |-> EMPTY, key |-> 0, val |-> 0]

\* the map as a value: the tables in stable memory and the three fields
new_with_capacity(h, capacity) ==
    [heap |-> h, table_ptr |-> EMPTY_PTR, len |-> 0, cap |-> capacity]

capacity(m) == m.cap

is_full(m) == m.len = (capacity(m) \div 4) * 3

\* read_key_at: the slot's flag, and its key where the flag is OCCUPIED
read_key_at(m, idx) == m.heap[m.table_ptr][idx]

read_val_at(m, idx) == m.heap[m.table_ptr][idx].val

write_key_at(m, idx, flag, key) ==
    IF flag = EMPTY
    THEN [m EXCEPT !.heap[m.table_ptr][idx].flag = EMPTY]
    ELSE [m EXCEPT !.heap[m.table_ptr][idx].flag = OCCUPIED,
                   !.heap[m.table_ptr][idx].key = key]

write_val_at(m, idx, val) == [m EXCEPT !.heap[m.table_ptr][idx].val = val]

\* allocate() and the write of the zeroed table
allocate_table(m) ==
    LET at(p) == [m EXCEPT !.heap = Put(@, p, [i \in 0 .. capacity(m) - 1 |-> ZeroedSlot]),
                           !.table_ptr = p]
    IN  at(CHOOSE p \in TablePtrs \ DOMAIN m.heap :
               \A q \in TablePtrs \ DOMAIN m.heap : p <= q)

\* iter_copy(): the occupied slots in the order of the table
iter_copy(m) ==
    SelectSeq([j \in 1 .. capacity(m) |-> m.heap[m.table_ptr][j - 1]],
              LAMBDA slot : slot.flag = OCCUPIED)

RECURSIVE SHashMap_insert(_, _, _, _)
RECURSIVE insert_from(_, _, _, _, _)
RECURSIVE insert_all(_, _, _, _)

\* the loop of insert from slot i on: [m, ret, path]
insert_from(m, key, value, hf, i) ==
    LET grown(r) ==
            [m |-> [r.m EXCEPT !.heap = destroy(@, m.table_ptr)],
             ret |-> r.ret, path |-> "grown"]
        at(slot) ==
            IF slot.flag = OCCUPIED
            THEN IF slot.key = key
                 THEN [m |-> write_val_at(m, i, value), ret |-> slot.val,
                       path |-> "replaced"]
                 ELSE insert_from(m, key, value, hf, (i + 1) % capacity(m))
            ELSE IF is_full(m)
            THEN grown(SHashMap_insert(
                           insert_all(new_with_capacity(m.heap, capacity(m) * 2 - 1),
                                      iter_copy(m), 1, hf),
                           key, value, hf))
            ELSE [m |-> [write_val_at(write_key_at(m, i, OCCUPIED, key), i, value)
                           EXCEPT !.len = @ + 1],
                  ret |-> None, path |-> "inserted"]
    IN  at(read_key_at(m, i))

\* `for (k, v) in self.iter_copy() { new.insert(k, v) }`
insert_all(new, pairs, j, hf) ==
    IF j > Len(pairs) THEN new
    ELSE insert_all(SHashMap_insert(new, pairs[j].key, pairs[j].val, hf).m,
                    pairs, j + 1, hf)

\* insert(key, value), hf[key] being Self::hash(&key)
SHashMap_insert(m, key, value, hf) ==
    LET start(t) == insert_from(t, key, value, hf, hf[key] % capacity(t))
    IN  start(IF m.table_ptr = EMPTY_PTR THEN allocate_table(m) ELSE m)

RECURSIVE find_from(_, _, _)
find_from(m, key, i) ==
    LET at(slot) ==
            IF slot.flag = OCCUPIED
            THEN IF slot.key = key THEN i
                 ELSE find_from(m, key, (i + 1) % capacity(m))
            ELSE None
    IN  at(read_key_at(m, i))

\* find_inner_idx: the slot of the key, or None
find_inner_idx(m, key, hf) ==
    IF m.len = 0 THEN None ELSE find_from(m, key, hf[key] % capacity(m))

Xor(a, b) == a # b

\* the removal without the back-shift
SHashMap_remove_by_idx_lazy(m, i0, hf) ==
    [m |-> [write_key_at(m, i0, EMPTY, 0) EXCEPT !.len = @ - 1],
     path |-> "removed"]

\* the loop of remove_by_idx with the hole at i, after slot j: [m, path]
RECURSIVE back_shift(_, _, _, _, _)
back_shift(m, i, j0, hf, path) ==
    LET done == [m |-> [write_key_at(m, i, EMPTY, 0) EXCEPT !.len = @ - 1],
                 path |-> path]
        step(j) ==
            LET at(slot) ==
                    IF slot.flag = EMPTY THEN done
                    ELSE IF Xor(Xor(j < i, hf[slot.key] % capacity(m) <= i),
                                hf[slot.key] % capacity(m) > j)
                    THEN back_shift(write_val_at(write_key_at(m, i, OCCUPIED, slot.key),
                                                 i, slot.val),
                                    j, j, hf,
                                    IF j < i THEN "shifted_around" ELSE
                                    IF path = "removed" THEN "shifted" ELSE path)
                    ELSE back_shift(m, i, j, hf, path)
            IN  IF j = i THEN done ELSE at(read_key_at(m, j))
    IN  step((j0 + 1) % capacity(m))

SHashMap_remove_by_idx(m, i0, hf) == back_shift(m, i0, i0, hf, "removed")

\* remove(key): [m, ret, path]
SHashMap_remove(m, key, hf) ==
    LET removed(r, v) == [m |-> r.m, ret |-> v, path |-> r.path]
        found(i) ==
            IF i = None THEN [m |-> m, ret |-> None, path |-> "absent"]
            ELSE removed(SHashMap_remove_by_idx(m, i, hf), read_val_at(m, i))
    IN  found(find_inner_idx(m, key, hf))

\* the loop of retain from slot i on, keep being the keys f answers true for
RECURSIVE retain_from(_, _, _)
retain_from(m, keep, i) ==
    LET at(slot) ==
            IF slot.flag = EMPTY \/ slot.key \in keep
            THEN retain_from(m, keep, i + 1)
            ELSE retain_from([write_key_at(m, i, EMPTY, 0) EXCEPT !.len = @ - 1],
                             keep, i + 1)
    IN  IF i >= m.cap THEN m ELSE at(read_key_at(m, i))

\* retain(f): [m, path]
SHashMap_retain(m, keep) ==
    IF m.len = 0 THEN [m |-> m, path |-> "empty"]
    ELSE [m |-> retain_from(m, keep, 0), path |-> "retained"]

SHashMap_get_copy(m, key, hf) ==
    LET found(i) == IF i = None THEN None ELSE read_val_at(m, i)
    IN  found(find_inner_idx(m, key, hf))

SHashMap_contains_key(m, key, hf) == find_inner_idx(m, key, hf) # None

\* the key and value bytes of a slot whose flag is EMPTY are read by no call:
\* they are kept as zeroes
forget_empty_slots(m) ==
    [m EXCEPT !.heap =
        [p \in DOMAIN @ |->
            [i \in DOMAIN @[p] |->
                IF @[p][i].flag = EMPTY THEN ZeroedSlot ELSE @[p][i]]]]

\* the hashes a key may have: the one it was hashed to, or any
HashesOf(k) == IF k \in DOMAIN hash_of THEN {hash_of[k]} ELSE HashValues

\* hash_of with key k hashed to h
HashWith(k, h) ==
    [x \in DOMAIN hash_of \cup {k} |-> IF x = k THEN h ELSE hash_of[x]]

HashLast(op, path, ret, expected) ==
    [op |-> op, path |-> path, ret |-> ret, expected |-> expected]

HashStored(k) == IF k \in DOMAIN hash_ref THEN hash_ref[k] ELSE None

\* no call of insert is running
IdleCall == [pc |-> "idle", key |-> 0, value |-> 0, outer |-> <<>>]

HashInit ==
    /\ hash_call = IdleCall
    /\ hash_map = new_with_capacity([p \in {} |-> 0], DEFAULT_CAPACITY)
    /\ hash_of = [k \in {} |-> 0]
    /\ hash_ref = [k \in {} |-> 0]
    /\ hash_last = HashLast("new", "none", None, None)

\* SHashMap::new_with_capacity(capacity) in place of SHashMap::new()
HashNewWithCapacity(cap) ==
    /\ hash_last.op = "new"
    /\ capacity(hash_map) = DEFAULT_CAPACITY
    /\ hash_map' = new_with_capacity(hash_map.heap, cap)
    /\ UNCHANGED <<hash_of, hash_ref, hash_last, hash_call, alloc_vars, tree_vars, log_vars>>

HashInsert(key, value, h) ==
    /\ h \in HashesOf(key)
    /\ hash_of' = HashWith(key, h)
    /\ LET done(r) ==
               /\ hash_map' = forget_empty_slots(r.m)
               /\ hash_last' = HashLast("insert", r.path, r.ret, HashStored(key))
       IN  done(SHashMap_insert(hash_map, key, value, HashWith(key, h)))
    /\ hash_ref' = AddSlice(hash_ref, key, value)
    /\ UNCHANGED <<hash_call, alloc_vars, tree_vars, log_vars>>

HashRemove(key, h) ==
    /\ h \in HashesOf(key)
    /\ hash_of' = HashWith(key, h)
    /\ LET done(r) ==
               /\ hash_map' = forget_empty_slots(r.m)
               /\ hash_last' = HashLast("remove", r.path, r.ret, HashStored(key))
       IN  done(SHashMap_remove(hash_map, key, HashWith(key, h)))
    /\ hash_ref' = DropSlice(hash_ref, key)
    /\ UNCHANGED <<hash_call, alloc_vars, tree_vars, log_vars>>

\* retain(f), f answering true for the keys of `keep`
HashRetain(keep) ==
    /\ LET done(r) ==
               /\ hash_map' = forget_empty_slots(r.m)
               /\ hash_last' = HashLast("retain", r.path, None, None)
       IN  done(SHashMap_retain(hash_map, keep))
    /\ hash_ref' = [k \in DOMAIN hash_ref \cap keep |-> hash_ref[k]]
    /\ UNCHANGED <<hash_of, hash_call, alloc_vars, tree_vars, log_vars>>

HashNext ==
    \/ \E cap \in InitialCapacities : HashNewWithCapacity(cap)
    \/ \E key \in HashKeys : \E value \in HashMapValues(key) : \E h \in HashValues :
          HashInsert(key, value, h)
    \/ \E key \in HashKeys : \E h \in HashValues : HashRemove(key, h)

(***************************************************************************)
(* insert, one activation at a time: each growth step is a call of insert  *)
(* on the new map from within the call on the old one.                     *)
(***************************************************************************)
\* the slot where the loop of insert stops when it starts at slot i: the
\* first that is empty or holds the key; None when `fuel` slots hold other
\* keys
RECURSIVE probe(_, _, _, _)
probe(m, key, i, fuel) ==
    LET at(slot) ==
            IF slot.flag = OCCUPIED /\ slot.key # key
            THEN probe(m, key, (i + 1) % capacity(m), fuel - 1)
            ELSE i
    IN  IF fuel = 0 THEN None ELSE at(read_key_at(m, i))

\* allocate() traps when stable memory has no room for one more table
NoRoomForTable(m) == TablePtrs \subseteq DOMAIN m.heap

\* one activation of insert, up to its return or up to its call of
\* new.insert(key, value): [m, ret, path, old], old being the table the
\* activation deallocates once that call has returned
insert_activation(m0, key, value, hf) ==
    LET trapped == [m |-> m0, ret |-> None, path |-> "trapped", old |-> EMPTY_PTR]
        stopped(m, i) ==
            IF i = None
            THEN [m |-> m0, ret |-> None, path |-> "probing", old |-> EMPTY_PTR]
            ELSE IF read_key_at(m, i).flag = OCCUPIED
            THEN [m |-> write_val_at(m, i, value), ret |-> read_val_at(m, i),
                  path |-> "replaced", old |-> EMPTY_PTR]
            ELSE IF is_full(m)
            THEN IF m.len > 0 /\ NoRoomForTable(m) THEN trapped
                 ELSE [m |-> insert_all(new_with_capacity(m.heap, capacity(m) * 2 - 1),
                                        iter_copy(m), 1, hf),
                       ret |-> None, path |-> "full", old |-> m.table_ptr]
            ELSE [m |-> [write_val_at(write_key_at(m, i, OCCUPIED, key), i, value)
                           EXCEPT !.len = @ + 1],
                  ret |-> None, path |-> "inserted", old |-> EMPTY_PTR]
        start(m) == stopped(m, probe(m, key, hf[key] % capacity(m), capacity(m)))
    IN  IF m0.table_ptr = EMPTY_PTR
        THEN IF NoRoomForTable(m0) THEN trapped ELSE start(allocate_table(m0))
        ELSE start(m0)

\* deallocate(slice) of every activation that was waiting, innermost first
RECURSIVE deallocate_tables(_, _)
deallocate_tables(h, outer) ==
    IF outer = <<>> THEN h
    ELSE deallocate_tables(destroy(h, outer[Len(outer)]), SubSeq(outer, 1, Len(outer) - 1))

\* the client calls insert(key, value)
HashCallInsert(key, value, h) ==
    /\ hash_call.pc = "idle"
    /\ h \in HashesOf(key)
    /\ hash_of' = HashWith(key, h)
    /\ hash_call' = [pc |-> "running", key |-> key, value |-> value, outer |-> <<>>]
    /\ hash_last' = HashLast("insert", "running", None, HashStored(key))
    /\ UNCHANGED <<hash_map, hash_ref, alloc_vars, tree_vars, log_vars>>

\* the innermost activation of insert runs to its return, to its call of
\* new.insert(key, value), or to the trap of allocate()
HashInsertActivation ==
    /\ hash_call.pc = "running"
    /\ LET done(r) ==
               /\ r.path # "probing"
               /\ IF r.path = "trapped"
                  THEN /\ hash_call' = [hash_call EXCEPT !.pc = "trapped"]
                       /\ UNCHANGED <<hash_map, hash_last, hash_ref>>
                  ELSE IF r.path = "full"
                  THEN /\ hash_call' = [hash_call EXCEPT !.outer = Append(@, r.old)]
                       /\ hash_map' = forget_empty_slots(r.m)
                       /\ UNCHANGED <<hash_last, hash_ref>>
                  ELSE /\ hash_call' = IdleCall
                       /\ hash_map' = forget_empty_slots(
                              [r.m EXCEPT !.heap = deallocate_tables(@, hash_call.outer)])
                       /\ hash_last' = HashLast("insert",
                              IF hash_call.outer = <<>> THEN r.path ELSE "grown",
                              r.ret, hash_last.expected)
                       /\ hash_ref' = AddSlice(hash_ref, hash_call.key, hash_call.value)
       IN  done(insert_activation(hash_map, hash_call.key, hash_call.value, hash_of))
    /\ UNCHANGED <<hash_of, alloc_vars, tree_vars, log_vars>>

\* insert(key, value) on a map retain has not been called on
HashFill(key, value, h) ==
    /\ hash_last.op # "retain"
    /\ HashInsert(key, value, h)

\* the client fills the map, then calls retain on it
HashRetainNext ==
    \/ \E key \in HashKeys : \E value \in HashMapValues(key) : \E h \in StepHashValues :
          HashFill(key, value, h)
    \/ \E keep \in SUBSET HashKeys : HashRetain(keep)

HashInsertNext ==
    \/ \E cap \in SmallCapacities : HashNewWithCapacity(cap)
    \/ \E key \in HashKeys : \E value \in HashMapValues(key) : \E h \in StepHashValues :
          HashCallInsert(key, value, h)
    \/ HashInsertActivation

(***************************************************************************)
(* SLog: a list of sectors, each twice the capacity of the one before.     *)
(***************************************************************************)
SLOG_DEFAULT_CAPACITY == 2

\* T::SIZE: the log is followed for an element type so large that
\* max_capacity() is within reach of MaxLogLen elements
T_SIZE == 268435455

\* 2usize.pow(31) / T::SIZE, written with numbers below 2^31
max_capacity ==
    (2147483647 \div T_SIZE) + (IF 2147483647 % T_SIZE = T_SIZE - 1 THEN 1 ELSE 0)

SectorPtrs == 1 .. MaxSectors

\* the result of a call that has read stable memory outside every sector
Trapped == -3

\* SLog::new(), with the sectors h of stable memory
SLog_new(h) ==
    [sectors |-> h, len |-> 0, first_sector_ptr |-> EMPTY_PTR,
     cur_sector_ptr |-> EMPTY_PTR, cur_sector_last_item_offset |-> 0,
     cur_sector_capacity |-> SLOG_DEFAULT_CAPACITY, cur_sector_len |-> 0]

\* Sector::new(cap, prev) at offset p
Sector_new(h, p, cap, prev) ==
    Put(h, p, [prev |-> prev, next |-> EMPTY_PTR, elements |-> [j \in 1 .. cap |-> UNINIT]])

read_prev_ptr(l, sector) == l.sectors[sector].prev

read_next_ptr(l, sector) == l.sectors[sector].next

write_next_ptr(l, sector, ptr) == [l EXCEPT !.sectors[sector].next = ptr]

write_prev_ptr(l, sector, ptr) == [l EXCEPT !.sectors[sector].prev = ptr]

\* the element at a byte offset of a sector, or Trapped where the sector's
\* block does not reach
read_element(l, sector, offset) ==
    IF sector \in DOMAIN l.sectors
       /\ (offset \div T_SIZE) + 1 \in DOMAIN l.sectors[sector].elements
    THEN l.sectors[sector].elements[(offset \div T_SIZE) + 1]
    ELSE Trapped

write_and_own_element(l, sector, offset, it) ==
    [l EXCEPT !.sectors[sector].elements[(offset \div T_SIZE) + 1] = it]

NewSectorPtr(h) ==
    CHOOSE p \in SectorPtrs \ DOMAIN h : \A q \in SectorPtrs \ DOMAIN h : p <= q

get_or_create_current_sector(l) ==
    IF l.cur_sector_ptr = EMPTY_PTR
    THEN LET created(p) ==
                 [l EXCEPT !.cur_sector_capacity = @ * 2,
                           !.sectors = Sector_new(@, p, l.cur_sector_capacity * 2, EMPTY_PTR),
                           !.first_sector_ptr = p,
                           !.cur_sector_ptr = p]
         IN  created(NewSectorPtr(l.sectors))
    ELSE l

\* pop leaves no sector behind the current one, so the next sector is always
\* a new one
move_to_next_sector_if_needed(l) ==
    IF l.cur_sector_len # l.cur_sector_capacity THEN l
    ELSE LET moved(cap, sector, p) ==
                 [write_next_ptr([l EXCEPT !.sectors = Sector_new(@, p, cap, sector)],
                                 sector, p)
                    EXCEPT !.cur_sector_capacity = cap,
                           !.cur_sector_ptr = p,
                           !.cur_sector_len = 0,
                           !.cur_sector_last_item_offset = 0]
         IN  moved(IF l.cur_sector_capacity < max_capacity
                   THEN l.cur_sector_capacity * 2 ELSE l.cur_sector_capacity,
                   l.cur_sector_ptr, NewSectorPtr(l.sectors))

move_to_prev_sector_if_needed(l, sector) ==
    IF l.cur_sector_len > 0 THEN l
    ELSE IF read_prev_ptr(l, sector) = EMPTY_PTR THEN l
    ELSE LET moved(prev_sector_ptr) ==
                 [write_next_ptr([l EXCEPT !.sectors = destroy(@, l.cur_sector_ptr)],
                                 prev_sector_ptr, EMPTY_PTR)
                    EXCEPT !.cur_sector_capacity = l.cur_sector_capacity \div 2,
                           !.cur_sector_len = l.cur_sector_capacity \div 2,
                           !.cur_sector_ptr = prev_sector_ptr,
                           !.cur_sector_last_item_offset =
                               (l.cur_sector_capacity \div 2) * T_SIZE]
         IN  moved(read_prev_ptr(l, sector))

\* push(it)
SLog_push(l, it) ==
    LET write(t) ==
            [write_and_own_element(t, t.cur_sector_ptr, t.cur_sector_last_item_offset, it)
               EXCEPT !.cur_sector_last_item_offset = @ + T_SIZE,
                      !.cur_sector_len = @ + 1,
                      !.len = @ + 1]
    IN  write(move_to_next_sector_if_needed(get_or_create_current_sector(l)))

\* pop(): [l, ret]
SLog_pop(l) ==
    IF l.len = 0 \/ l.cur_sector_ptr = EMPTY_PTR THEN [l |-> l, ret |-> None]
    ELSE LET read(t) ==
                 [l |-> move_to_prev_sector_if_needed(t, t.cur_sector_ptr),
                  ret |-> read_element(t, t.cur_sector_ptr, t.cur_sector_last_item_offset)]
         IN  read([l EXCEPT !.cur_sector_last_item_offset = @ - T_SIZE,
                            !.cur_sector_len = @ - 1,
                            !.len = @ - 1])

\* the loop of find_sector_for_idx: [sector, dif], the sector being Trapped
\* once the walk has left the sectors
RECURSIVE find_sector_from(_, _, _, _, _)
find_sector_from(l, idx, sector, sector_len, len0) ==
    LET at(rest) ==
            IF rest <= idx THEN [sector |-> sector, dif |-> rest]
            ELSE IF sector \notin DOMAIN l.sectors
            THEN [sector |-> Trapped, dif |-> rest]
            ELSE find_sector_from(l, idx, read_prev_ptr(l, sector),
                                  IF sector = l.cur_sector_ptr
                                  THEN l.cur_sector_capacity \div 2
                                  ELSE sector_len \div 2,
                                  rest)
    IN  at(len0 - sector_len)

\* find_sector_for_idx(idx): [sector, dif], the sector being None for None
find_sector_for_idx(l, idx) ==
    IF idx >= l.len \/ l.len = 0 THEN [sector |-> None, dif |-> 0]
    ELSE find_sector_from(l, idx, l.cur_sector_ptr, l.cur_sector_len, l.len)

\* get(idx): the element, None, or Trapped
SLog_get(l, idx) ==
    LET found(r) ==
            IF r.sector = None THEN None
            ELSE IF r.sector = Trapped THEN Trapped
            ELSE read_element(l, r.sector, (idx - r.dif) * T_SIZE)
    IN  found(find_sector_for_idx(l, idx))

\* the values the client pushes as the element of index i
LogValues(i) == {i + 1} \cup (IF i < RevaluedElements THEN {100 + i + 1} ELSE {})

LogLast(op, ret, expected) == [op |-> op, ret |-> ret, expected |-> expected]

LogInit ==
    /\ slog = SLog_new([p \in {} |-> 0])
    /\ log_ref = <<>>
    /\ log_last = LogLast("new", None, None)

LogPush(it) ==
    /\ Len(log_ref) < MaxLogLen
    /\ Cardinality(DOMAIN slog.sectors) < MaxSectors
    /\ slog' = SLog_push(slog, it)
    /\ log_ref' = Append(log_ref, it)
    /\ log_last' = LogLast("push", None, None)
    /\ UNCHANGED <<alloc_vars, tree_vars, hash_vars>>

LogPop ==
    /\ LET done(r) ==
               /\ slog' = r.l
               /\ log_last' = LogLast("pop", r.ret,
                                      IF log_ref = <<>> THEN None
                                      ELSE log_ref[Len(log_ref)])
       IN  done(SLog_pop(slog))
    /\ log_ref' = IF log_ref = <<>> THEN log_ref
                  ELSE SubSeq(log_ref, 1, Len(log_ref) - 1)
    /\ UNCHANGED <<alloc_vars, tree_vars, hash_vars>>

LogNext ==
    \/ \E it \in LogValues(Len(log_ref)) : LogPush(it)
    \/ LogPop

Init == AllocInit /\ TreeInit /\ HashInit /\ LogInit

\* the allocator under allocate, deallocate and reallocate
Spec == Init /\ [][AllocNext]_vars

\* the allocator under allocate and deallocate only
SpecAllocDealloc == Init /\ [][AllocDeallocNext]_vars

\* the allocator under allocate and deallocate, with the sizes of FitSizes
SpecFit == Init /\ [][FitNext]_vars

\* the allocator under allocate, deallocate, its setters, store and reinit
SpecPersist == Init /\ [][PersistNext]_vars

\* the allocator under allocate, deallocate and set_max_grow_pages
SpecGrowCap == Init /\ [][GrowCapNext]_vars

\* the allocator under allocate, deallocate, the two caps, handle_free_buffer,
\* store and reinit
SpecLowMemory == Init /\ [][LowMemoryNext]_vars

\* the hash map under new_with_capacity, insert and remove
SpecHashMap == Init /\ [][HashNext]_vars

\* inserts, then retain
SpecHashRetain == Init /\ [][HashRetainNext]_vars

\* insert followed one activation at a time; an activation that can run does
SpecHashInsert ==
    Init /\ [][HashInsertNext]_vars /\ WF_vars(HashInsertActivation)

\* the log under push and pop
SpecLog == Init /\ [][LogNext]_vars

\* the B+-tree map filled in increasing order, then under remove
SpecTreeWide == Init /\ [][WideNext]_vars

\* the B+-tree map under insert and remove
SpecTree == Init /\ [][TreeNext]_vars

(***************************************************************************)
(* What the allocator claims are stated over.                              *)
(***************************************************************************)
RECURSIVE SumOver(_, _)
SumOver(f, S) ==
    IF S = {} THEN 0
    ELSE LET x == CHOOSE y \in S : TRUE IN f[x] + SumOver(f, S \ {x})

\* the blocks met following next from p; <<EMPTY_PTR>> is appended when the
\* walk leaves stable memory's blocks or does not end within `fuel` steps
RECURSIVE WalkNext(_, _)
WalkNext(p, fuel) ==
    IF p = EMPTY_PTR THEN <<>>
    ELSE IF fuel = 0 \/ p \notin DOMAIN blocks THEN <<EMPTY_PTR>>
    ELSE <<p>> \o WalkNext(blocks[p].next, fuel - 1)

RECURSIVE WalkPrev(_, _)
WalkPrev(p, fuel) ==
    IF p = EMPTY_PTR THEN <<>>
    ELSE IF fuel = 0 \/ p \notin DOMAIN blocks THEN <<EMPTY_PTR>>
    ELSE <<p>> \o WalkPrev(blocks[p].prev, fuel - 1)

Reverse(s) == [i \in 1 .. Len(s) |-> s[Len(s) + 1 - i]]

Range(s) == {s[i] : i \in 1 .. Len(s)}

\* the free list of class c, from its head
FreeList(c) == WalkNext(seg_class_heads[c], Cardinality(DOMAIN blocks))

\* every block linked in a free list
LinkedBlocks == UNION {Range(FreeList(c)) : c \in SegClasses}

TotalSizes(S) ==
    SumOver([p \in S |-> get_total_size_bytes(blocks[p].size)], S)

\* C1: allocated_size is the sum of the total sizes (payload + 2 * META) of
\* the blocks the client holds, and free_size is the sum of the total sizes
\* of the blocks linked in the free lists, after any sequence of allocate and
\* deallocate calls.
C1_SizesAccounted ==
    /\ allocated_size =
          SumOver([p \in DOMAIN slices |-> get_total_size_bytes(slices[p])], DOMAIN slices)
    /\ LinkedBlocks \subseteq DOMAIN blocks
    /\ free_size = TotalSizes(LinkedBlocks)

\* a deallocate that merged with both neighbors, other slices still held
C1_Witness ==
    /\ last_op.op = "deallocate"
    /\ last_op.path = "both"
    /\ DOMAIN slices # {}
    /\ pages > InitPages

C3_FreeListsLinked ==
    \A c \in SegClasses :
        LET h == seg_class_heads[c]
            t == seg_class_tails[c]
            n == Cardinality(DOMAIN blocks)
        IN  /\ (h = EMPTY_PTR) <=> (t = EMPTY_PTR)
            /\ h # EMPTY_PTR =>
                  /\ h \in DOMAIN blocks /\ t \in DOMAIN blocks
                  /\ blocks[h].prev = EMPTY_PTR
                  /\ blocks[t].next = EMPTY_PTR
                  /\ EMPTY_PTR \notin Range(WalkNext(h, n))
                  /\ WalkNext(h, n) = Reverse(WalkPrev(t, n))

\* a deallocate that ejected a block from the middle of its list, leaving a
\* list of two
C3_Witness ==
    /\ last_op.op = "deallocate"
    /\ "middle" \in last_op.eject
    /\ \E c \in SegClasses : Len(FreeList(c)) >= 2

(***************************************************************************)
(* What the map claims are stated over.  A claim about the map's state is  *)
(* stated for the states a call has determined: those not left by a read   *)
(* of memory that holds no node.                                           *)
(***************************************************************************)
Determined == fault # "no_node"

IsLeaf(p) == p \in DOMAIN heap /\ heap[p].tag = NODE_TYPE_LEAF

IsInternal(p) == p \in DOMAIN heap /\ heap[p].tag = NODE_TYPE_INTERNAL

\* the pair a traversal meets where a child offset holds no node
NoPair == <<Undefined, Undefined>>

RECURSIVE Traversal(_, _)
RECURSIVE TraversalFrom(_, _, _)

\* the (key, value) pairs of the leaves under the node at ptr, in order
Traversal(ptr, fuel) ==
    IF ptr = None THEN <<>>
    ELSE IF ptr \notin DOMAIN heap \/ fuel = 0 THEN <<NoPair>>
    ELSE IF heap[ptr].tag = NODE_TYPE_LEAF
    THEN [i \in 1 .. heap[ptr].len |-> <<heap[ptr].keys[i], heap[ptr].slots[i]>>]
    ELSE TraversalFrom(ptr, 0, fuel)

\* the pairs under the children i .. len of the internal node at ptr
TraversalFrom(ptr, i, fuel) ==
    IF i > heap[ptr].len THEN <<>>
    ELSE Traversal(read_slot(heap, ptr, i), fuel - 1) \o TraversalFrom(ptr, i + 1, fuel)

\* the nodes under the node at ptr, itself included
RECURSIVE Subtree(_, _)
Subtree(ptr, fuel) ==
    IF ptr \notin DOMAIN heap \/ fuel = 0 THEN {}
    ELSE IF heap[ptr].tag = NODE_TYPE_LEAF THEN {ptr}
    ELSE {ptr} \cup UNION {Subtree(read_slot(heap, ptr, i), fuel - 1) :
                              i \in 0 .. heap[ptr].len}

\* the keys stored in the nodes under the node at ptr
SubtreeKeys(ptr) ==
    UNION {{heap[p].keys[i] : i \in 1 .. heap[p].len} : p \in Subtree(ptr, MaxDepth)}

\* the depths at which the paths from the node at ptr (at depth d) end: the
\* depth of a leaf, Undefined for a path that ends in no node
RECURSIVE PathEnds(_, _, _)
PathEnds(ptr, d, fuel) ==
    IF ptr \notin DOMAIN heap \/ fuel = 0 THEN {Undefined}
    ELSE IF heap[ptr].tag = NODE_TYPE_LEAF THEN {d}
    ELSE UNION {PathEnds(read_slot(heap, ptr, i), d + 1, fuel - 1) :
                   i \in 0 .. heap[ptr].len}

\* the pairs inserted and not removed since
Stored(k) == IF k \in DOMAIN ref THEN ref[k] ELSE None

\* C4: after any sequence of insert and remove calls, removes of absent keys
\* included, the in-order traversal of the leaves yields strictly increasing
\* keys, and len() is the number of pairs in that traversal.
C4_TraversalSortedAndCounted ==
    Determined =>
        LET pairs == Traversal(root, MaxDepth)
        IN  /\ NoPair \notin Range(pairs)
            /\ \A i \in 1 .. Len(pairs) - 1 : pairs[i][1] < pairs[i + 1][1]
            /\ len = Len(pairs)

\* C5: after any sequence of insert and remove calls, get_copy(k) returns the
\* value of the most recent insert of k that no remove(k) has followed, and
\* none for every other key: get agrees with the reference map.
C5_GetAgreesWithReference ==
    Determined => \A k \in Keys : get_copy(k) = Stored(k)

\* C6: after every completed insert and remove, every node but the root holds
\* between MIN_LEN_AFTER_SPLIT and CAPACITY keys, and an internal node with n
\* keys has n + 1 children.
C6_NodeOccupancy ==
    Determined =>
        \A p \in (IF root = None THEN {} ELSE Subtree(root, MaxDepth)) :
            /\ p # root =>
                  /\ heap[p].len >= MIN_LEN_AFTER_SPLIT
                  /\ heap[p].len <= CAPACITY
            /\ IsInternal(p) =>
                  \A i \in 0 .. heap[p].len : read_slot(heap, p, i) \in DOMAIN heap

\* C7: after every completed insert and remove, for every internal node and
\* every key index i, the keys in the subtree of child i are below key i and
\* the keys in the subtree of child i + 1 are at or above key i.
C7_SeparatorsOrdered ==
    Determined =>
        \A p \in (IF root = None THEN {} ELSE Subtree(root, MaxDepth)) :
            IsInternal(p) =>
                \A i \in 0 .. heap[p].len - 1 :
                    /\ \A k \in SubtreeKeys(read_slot(heap, p, i)) : k < read_key(heap, p, i)
                    /\ \A k \in SubtreeKeys(read_slot(heap, p, i + 1)) :
                          k >= read_key(heap, p, i)

\* C8: after every completed insert and remove, all leaves are at the same
\* depth from the root: every path from the root down the children ends in a
\* leaf, and all of them at one depth.
C8_LeavesSameDepth ==
    Determined =>
        \/ root = None
        \/ /\ Undefined \notin PathEnds(root, 0, MaxDepth)
           /\ Cardinality(PathEnds(root, 0, MaxDepth)) = 1

\* C9: remove(k) on a map that contains k returns the value stored for k,
\* lowers len() by one, makes k absent for get_copy and contains_key, and
\* leaves every other stored pair present with its value, whichever path the
\* removal takes.
C9_RemovePresent ==
    [][\A k \in Keys :
          (/\ Remove(k)
           /\ get_copy(k) \notin {None, Undefined}
           /\ fault' # "no_node")
          => /\ remove(TreeState, k).ret = get_copy(k)
             /\ len' = len - 1
             /\ get_copy(k)' = None
             /\ ~contains_key(k)'
             /\ \A j \in Keys \ {k} : get_copy(j)' = get_copy(j)]_vars

\* C10: insert(k, v) returns none and raises len() by one when k was absent,
\* and returns the value stored before, stores v for k and leaves len() as it
\* was when k was present.
C10_InsertContract ==
    [][\A k \in Keys : \A v \in Values(k) :
          (Insert(k, v) /\ fault' # "no_node")
          => IF Stored(k) = None
             THEN /\ insert(TreeState, k, v).ret = None
                  /\ len' = len + 1
             ELSE /\ insert(TreeState, k, v).ret = Stored(k)
                  /\ get_copy(k)' = v
                  /\ len' = len]_vars

\* the stored pairs with keys in S, by increasing key
RECURSIVE StoredPairs(_)
StoredPairs(S) ==
    IF S = {} THEN <<>>
    ELSE LET first(k) == << <<k, ref[k]>> >> \o StoredPairs(S \ {k})
         IN  first(CHOOSE k \in S : \A j \in S : k <= j)

\* C11: forward iteration over the map yields every stored pair exactly once
\* by strictly increasing key, and reverse iteration every stored pair
\* exactly once by strictly decreasing key.
C11_IterationYieldsStoredPairs ==
    Determined =>
        /\ iter = StoredPairs(DOMAIN ref)
        /\ iter_rev = Reverse(StoredPairs(DOMAIN ref))

(***************************************************************************)
(* Reallocation, persistence and exhaustion of the allocator.              *)
(***************************************************************************)

\* C12: reallocate(b, n) returns a block of payload at least n whose first
\* min(old_size, n) bytes are the bytes last written to b, the block being
\* whole (nothing was written past its payload), whether it stayed in place
\* or was relocated and whether n is above or below the old payload.  A
\* reallocate refused for want of memory is not in the claim.
C12_ReallocateKeepsContents ==
    [][\A ptr \in DOMAIN slices : \A new_size \in ReallocSizes :
       \A trap \in TrapEnds : \A copy \in CopyBeyond :
          (Reallocate(ptr, new_size, trap, copy) /\ last_op'.path # "oom")
          => /\ last_op'.ptr \in DOMAIN slices'
             /\ slices'[last_op'.ptr] >= new_size
             /\ written'[last_op'.ptr] >= Min(written[ptr], new_size)
             /\ ~overrun']_vars

\* C13: an allocator stored and then reinitialized at the same offset has
\* the free-list heads and tails of every class, the free_size, the
\* allocated_size, the max_allocation_pages, the max_grow_pages, the
\* low-memory flag and the custom data slots of the allocator that was
\* stored, and the blocks allocated before the store are at their offsets,
\* allocated.
C13_ReinitRestoresStored ==
    last_op.op = "reinit" =>
        /\ Fields = stored[1]
        /\ \A p \in DOMAIN slices :
              /\ p \in DOMAIN blocks
              /\ ~blocks[p].free
              /\ blocks[p].size = slices[p]

\* an allocator reinitialized with blocks allocated, free lists in two
\* classes, a grow cap and a custom data slot set
C13_Witness ==
    /\ last_op.op = "reinit"
    /\ DOMAIN slices # {}
    /\ Cardinality({c \in SegClasses : seg_class_heads[c] # EMPTY_PTR}) >= 2
    /\ max_grow_pages # DEFAULT_MAX_GROW_PAGES
    /\ \E i \in CustomSlots : custom_data_ptrs[i] \in DOMAIN slices

\* C14: after any sequence of allocate and reallocate calls, in place or
\* relocating, once every live block has been deallocated (every block of
\* stable memory is free), allocated_size is 0.
C14_AllDeallocatedCountsZero ==
    (\A p \in DOMAIN blocks : blocks[p].free) => allocated_size = 0

\* C15: once every block handed out by allocate has been deallocated, in
\* any order and whether or not the Region grew, the free lists together
\* hold exactly one block, which spans [min_ptr, max_ptr).
C15_FullyCoalesced ==
    DOMAIN slices = {} =>
        /\ LinkedBlocks = {min_ptr}
        /\ \A c \in SegClasses : Len(FreeList(c)) <= 1
        /\ DOMAIN blocks = {min_ptr}
        /\ get_next_neighbor_ptr(min_ptr, blocks[min_ptr].size) = max_ptr

\* everything deallocated after the Region grew, the last block released
\* having had free blocks on both sides
C15_Witness ==
    /\ DOMAIN slices = {}
    /\ last_op.op = "deallocate"
    /\ last_op.path = "both"
    /\ pages > InitPages

\* the free lists of the allocator value a
RECURSIVE WalkNextIn(_, _, _)
WalkNextIn(bl, p, fuel) ==
    IF p = EMPTY_PTR THEN <<>>
    ELSE IF fuel = 0 \/ p \notin DOMAIN bl THEN <<EMPTY_PTR>>
    ELSE <<p>> \o WalkNextIn(bl, bl[p].next, fuel - 1)

FreeListIn(a, c) == WalkNextIn(a.blocks, a.heads[c], Cardinality(DOMAIN a.blocks))

LinkedBlocksIn(a) == UNION {Range(FreeListIn(a, c)) : c \in SegClasses}

\* the allocator value a call leaves
AllocatorAfter ==
    [blocks |-> blocks', heads |-> seg_class_heads', tails |-> seg_class_tails',
     free_size |-> free_size', allocated_size |-> allocated_size',
     max_ptr |-> max_ptr', pages |-> pages']

\* C16: when the block after b is free and payload(b) + payload(next)
\* + 2 * META is at least n, reallocate(b, n) returns a block at b's offset,
\* and when the combined payload is at least n + BLOCK_MIN_TOTAL_SIZE the
\* remainder behind the first n bytes is a free block on a free list.
C16_InPlaceWithFreeNext ==
    LET g == last_op.given
        combined == g.size + g.next_size + BLOCK_META_SIZE * 2
        rest == get_next_neighbor_ptr(g.ptr, g.new_size)
    IN  (last_op.op = "reallocate" /\ g.next # EMPTY_PTR /\ combined >= g.new_size)
        => /\ last_op.ptr = g.ptr
           /\ g.ptr \in DOMAIN slices
           /\ slices[g.ptr] >= g.new_size
           /\ combined >= g.new_size + BLOCK_MIN_TOTAL_SIZE =>
                 /\ slices[g.ptr] = g.new_size
                 /\ rest \in LinkedBlocks
                 /\ blocks[rest].free
                 /\ get_total_size_bytes(blocks[rest].size) = combined - g.new_size

\* a block grown in place into its free next neighbor, a remainder put back
C16_Witness ==
    /\ last_op.op = "reallocate"
    /\ last_op.path = "inplace_split"
    /\ written[last_op.ptr] < slices[last_op.ptr]
    /\ get_next_neighbor_ptr(last_op.ptr, slices[last_op.ptr]) \in LinkedBlocks

\* C17: deallocating a block whose previous and next neighbors are both
\* free takes both neighbors off their lists and leaves one free block at
\* the previous neighbor's offset whose payload is the three payloads plus
\* 4 * META, linked once, no other block lying inside it.
C17_MergeBothNeighbors ==
    [][\A ptr \in DOMAIN slices :
          LET prev == prev_neighbor_if_free(AllocatorState, ptr)
              next == next_neighbor_if_free(AllocatorState, ptr, slices[ptr])
              payload == blocks[prev].size + slices[ptr] + blocks[next].size
                           + BLOCK_META_SIZE * 4
          IN  IF Deallocate(ptr) /\ prev # EMPTY_PTR /\ next # EMPTY_PTR
              THEN
                 /\ blocks'[prev] = [blocks'[prev] EXCEPT !.free = TRUE, !.size = payload]
                 /\ \A q \in DOMAIN blocks' :
                       ~(q > prev /\ q < get_next_neighbor_ptr(prev, payload))
                 /\ LinkedBlocksIn(AllocatorAfter) = (LinkedBlocks \ {next}) \cup {prev}
                 /\ FreeListIn(AllocatorAfter, get_seg_class_id(payload)) =
                       SelectSeq(FreeList(get_seg_class_id(payload)),
                                 LAMBDA q : q # prev /\ q # next) \o <<prev>>
                 /\ \A c \in SegClasses \ {get_seg_class_id(payload)} :
                       FreeListIn(AllocatorAfter, c) =
                           SelectSeq(FreeList(c), LAMBDA q : q # prev /\ q # next)
              ELSE TRUE]_vars

\* a block released between two free neighbors, other blocks still held
C17_Witness ==
    /\ last_op.op = "deallocate"
    /\ last_op.path = "both"
    /\ DOMAIN slices # {}
    /\ \E c \in SegClasses : Len(FreeList(c)) >= 2

\* C18: with max_grow_pages = m other than 0, an allocate that no free
\* block can serve and that would grow stable memory to m pages or beyond
\* fails with OutOfMemory and does not grow; with max_grow_pages = 0 such an
\* allocate fails only when the host refuses to grow.
C18_GrowCapRespected ==
    [][\A requested \in AllocSizes :
          LET size == pad_size(requested)
              unserved ==
                  FirstFit(AllocatorState, get_seg_class_id(size), size).ptr = EMPTY_PTR
          IN  IF Allocate(requested) /\ unserved
              THEN IF max_grow_pages # 0
                   THEN pages + pages_to_grow(size) >= max_grow_pages
                        => (last_op'.path = "oom" /\ pages' = pages)
                   ELSE (last_op'.path = "oom") <=> ~GrowOk(AllocatorState, pages_to_grow(size))
              ELSE TRUE]_vars

\* C19: an allocate that fails because the host refuses to grow leaves the
\* allocator as it was: the free lists, free_size, allocated_size, max_ptr
\* and the metadata of every block.
C19_FailedAllocateChangesNothing ==
    [][\A requested \in AllocSizes :
          IF Allocate(requested) /\ last_op'.path = "oom"
          THEN UNCHANGED <<blocks, seg_class_heads, seg_class_tails, free_size,
                           allocated_size, max_ptr, pages, slices>>
          ELSE TRUE]_vars

\* an allocate refused with slices held and free blocks on the lists
C19_Witness ==
    /\ last_op.op = "allocate"
    /\ last_op.path = "oom"
    /\ DOMAIN slices # {}
    /\ LinkedBlocks # {}
    /\ pages = MaxPages

\* C20: a reallocate that cannot grow in place and whose replacement
\* allocation fails with OutOfMemory leaves the allocator as it was: the
\* block still allocated at its offset with its contents, the free lists
\* and the counters as before.
C20_FailedReallocateChangesNothing ==
    [][\A ptr \in DOMAIN slices : \A new_size \in ReallocSizes :
       \A trap \in TrapEnds : \A copy \in CopyBeyond :
          IF Reallocate(ptr, new_size, trap, copy) /\ last_op'.path = "oom"
          THEN /\ UNCHANGED <<blocks, seg_class_heads, seg_class_tails, free_size,
                              allocated_size, max_ptr, pages, slices, written>>
               /\ ~blocks[ptr].free
          ELSE TRUE]_vars

\* C21: over any run of allocator calls, handle_free_buffer steps, stores and
\* reinits, the host's low-memory callback is triggered at most once; once it
\* has been triggered the flag is set, in the allocator while it is live and
\* in the stored header while it is not.
C21_HookTriggeredAtMostOnce ==
    /\ low_memory_triggers <= 1
    /\ low_memory_triggers = 1 =>
           IF live THEN on_low_stable_memory_callback_executed
           ELSE prologue[flag_offset] = 1

\* the hook has been triggered, the allocator has been stored and reinited,
\* and a later handle_free_buffer has found the flag set
C21_Witness ==
    /\ low_memory_triggers = 1
    /\ stored # <<>>
    /\ live
    /\ last_op.op = "handle_free_buffer"
    /\ last_op.path \in {"capped", "refused"}

\* C22: a map whose len() is 0 has no root: when it is new, after remove() on
\* an empty map, and after the last key has been removed.
C22_EmptyMapHasNoRoot == len = 0 => root = None

\* C23: only insert allocates: a remove() never takes a block for a node from
\* the allocator (get_copy() and contains_key() take &self and write nothing).
C23_OnlyInsertAllocates ==
    [][\A key \in Keys : Remove(key) => DOMAIN heap' \subseteq DOMAIN heap]_vars

\* the nodes reached from the root through child pointers
Reachable == Subtree(root, MaxDepth)

\* C24: after every completed insert and remove, the node blocks allocated
\* and not deallocated are exactly the nodes reachable from the root: none is
\* left unreachable, and no child pointer of a reachable node leads to a
\* deallocated block.
C24_AllocatedNodesReachable ==
    Determined =>
        /\ DOMAIN heap = Reachable
        /\ \A p \in Reachable :
               heap[p].tag = NODE_TYPE_INTERNAL =>
                   \A i \in 0 .. heap[p].len : read_slot(heap, p, i) \in DOMAIN heap

\* C26: remove(k) of a key the map does not hold, the empty map included,
\* returns None and leaves len(), the stored pairs and the nodes of the tree
\* as they were.
C26_RemoveAbsentChangesNothing ==
    [][\A k \in Keys :
          (Remove(k) /\ k \notin DOMAIN ref /\ fault = "none")
          => /\ remove(TreeState, k).ret = None
             /\ len' = len
             /\ root' = root
             /\ heap' = heap]_vars

\* the offsets met by stepping from ptr by each block's header size plus
\* 2 * BLOCK_META_SIZE, up to the first offset that is max_ptr or holds no
\* block header
RECURSIVE BlockWalk(_, _)
BlockWalk(ptr, fuel) ==
    IF ptr = max_ptr \/ ptr \notin DOMAIN blocks \/ fuel = 0 THEN <<ptr>>
    ELSE <<ptr>> \o BlockWalk(get_next_neighbor_ptr(ptr, blocks[ptr].size), fuel - 1)

\* C25: between calls, the walk from min_ptr by header sizes ends exactly at
\* max_ptr and meets every block: the blocks tile the arena without gap or
\* overlap, after Region growth and in-place reallocation too.  (A block is
\* one record here, its trailer being the copy of its header.)
C25_BlocksTileArena ==
    LET walk == BlockWalk(min_ptr, Cardinality(DOMAIN blocks) + 1)
    IN  /\ walk[Len(walk)] = max_ptr
        /\ Range(walk) \ {max_ptr} = DOMAIN blocks

\* the payload the claim calls s, for a request of n bytes
PaddedRequest(n) == IF n > BLOCK_MIN_TOTAL_SIZE THEN n ELSE BLOCK_MIN_TOTAL_SIZE

\* C29: allocate(n) returns a block of payload p with s <= p < s +
\* BLOCK_MIN_TOTAL_SIZE, s being max(n, BLOCK_MIN_TOTAL_SIZE): the chosen
\* block, a linked free one or the one a grown Region gives, is handed out
\* whole when its payload is below s + BLOCK_MIN_TOTAL_SIZE, and otherwise cut
\* to payload s, the rest being linked as a free block of payload (chosen - s -
\* 2 * BLOCK_META_SIZE) right behind it.
C29_WholeOrSplit ==
    [][\A n \in FitSizes :
          IF Allocate(n) /\ last_op'.path # "oom"
          THEN LET s == PaddedRequest(n)
                   ptr == last_op'.ptr
                   p == slices'[ptr]
                   chosen == IF pages' = pages THEN blocks[ptr].size
                             ELSE (pages' - pages) * PAGE_SIZE_BYTES - BLOCK_META_SIZE * 2
                   rest == ptr + BLOCK_META_SIZE * 2 + s
                   linked == LinkedBlocksIn(AllocatorAfter)
               IN  /\ s <= p /\ p < s + BLOCK_MIN_TOTAL_SIZE
                   /\ pages' = pages => ptr \in LinkedBlocks
                   /\ pages' # pages => ptr = pages * PAGE_SIZE_BYTES
                   /\ IF chosen < s + BLOCK_MIN_TOTAL_SIZE
                      THEN /\ p = chosen
                           /\ linked = LinkedBlocks \ {ptr}
                      ELSE /\ p = s
                           /\ linked = (LinkedBlocks \ {ptr}) \cup {rest}
                           /\ blocks'[rest].free
                           /\ blocks'[rest].size = chosen - s - BLOCK_META_SIZE * 2
          ELSE TRUE]_vars

\* an allocate has handed out a whole free block larger than any request
C29_Witness ==
    /\ last_op.op = "allocate"
    /\ last_op.path = "whole"
    /\ slices[last_op.ptr] \notin {PaddedRequest(n) : n \in FitSizes}

\* C30: allocate grows the Region only if no linked free block has a payload
\* of at least the padded request; when there is one, the request is served
\* from the free lists and the Region keeps its size.
C30_GrowsOnlyWithoutFit ==
    [][\A n \in FitSizes :
          IF Allocate(n)
          THEN IF \E q \in LinkedBlocks : blocks[q].size >= pad_size(n)
               THEN /\ pages' = pages
                    /\ last_op'.path \in {"whole", "split"}
               ELSE last_op'.path \in {"grow_whole", "grow_split", "oom"}
          ELSE TRUE]_vars

\* an allocate has grown the Region while a free block, too small for the
\* request, was linked in the first page
C30_Witness ==
    /\ last_op.op = "allocate"
    /\ last_op.path \in {"grow_whole", "grow_split"}
    /\ \E q \in LinkedBlocks : q < InitPages * PAGE_SIZE_BYTES /\ q # last_op.ptr

\* C27: over any run of insert and remove on the hash map, table growth and
\* back-shifts around the end of the table included, every call returns what
\* a reference map returns, get and contains_key answer as the reference map
\* does for every key, and len() is the number of keys it holds.
C27_HashMapRefinesReference ==
    /\ hash_last.ret = hash_last.expected
    /\ hash_map.len = Cardinality(DOMAIN hash_ref)
    /\ \A k \in HashKeys : \A h \in HashesOf(k) :
           /\ SHashMap_get_copy(hash_map, k, HashWith(k, h)) = HashStored(k)
           /\ SHashMap_contains_key(hash_map, k, HashWith(k, h)) <=> k \in DOMAIN hash_ref

\* the table has grown, and a remove has shifted an entry back around the
\* end of the table
C27_Witness ==
    /\ capacity(hash_map) > DEFAULT_CAPACITY
    /\ hash_last.op = "remove"
    /\ hash_last.path = "shifted_around"
    /\ hash_map.len > 0

Entries(h, p) == [i \in 1 .. h[p].len |-> <<h[p].keys[i], h[p].slots[i]>>]

\* the leaf the descent of insert reaches for key k, None when it ends in no
\* node
TargetLeaf(k) ==
    IF root = None THEN None ELSE Descend(TreeState, root, k, NoFin, MaxDepth).leaf

\* an insert of the absent key k splits a full leaf, with a node to spare for
\* every split above it
SplitsLeaf(k) ==
    /\ fault = "none"
    /\ Stored(k) = None
    /\ Cardinality(FreeNodes(heap)) >= MaxStack + 2
    /\ TargetLeaf(k) # None
    /\ heap[TargetLeaf(k)].len = CAPACITY

\* the internal nodes of h that hold key as the separator between the
\* children left and right
SeparatedBy(h, key, left, right) ==
    {q \in DOMAIN h :
        /\ h[q].tag = NODE_TYPE_INTERNAL
        /\ \E i \in 0 .. h[q].len - 1 :
               /\ read_key(h, q, i) = key
               /\ read_slot(h, q, i) = left
               /\ read_slot(h, q, i + 1) = right}

\* C31: when insert splits a full leaf for an absent key, the old leaf and the
\* new right leaf hold B entries each, their entries one after the other are
\* the old entries and the new pair by increasing key, and the key handed to
\* the parent is the right leaf's first key; for every insertion index.
C31_LeafSplitHalves ==
    \A k \in Keys : \A v \in Values(k) :
        SplitsLeaf(k) =>
            LET holds(leaf, right, r, after) ==
                    LET all == Entries(r.h, leaf) \o Entries(r.h, right)
                    IN  /\ r.kind = "split"
                        /\ r.h[leaf].len = B
                        /\ r.h[right].len = B
                        /\ Range(all) = Range(Entries(heap, leaf)) \cup {<<k, v>>}
                        /\ \A i \in 1 .. Len(all) - 1 : all[i][1] < all[i + 1][1]
                        /\ after.fault = "none" =>
                              SeparatedBy(after.heap, read_key(after.heap, right, 0),
                                          leaf, right) # {}
            IN  holds(TargetLeaf(k), NewPtr(heap),
                      insert_leaf(heap, TargetLeaf(k), k, v, NewPtr(heap)),
                      insert(TreeState, k, v).t)

\* the index at which insert_leaf places the absent key k in its leaf
InsertIdx(k) == binary_search(heap, TargetLeaf(k), CAPACITY, k).idx

\* a full leaf is about to be split by an insert at index B, the first index
\* whose pair goes to the new right leaf
C31_Witness == \E k \in Keys : SplitsLeaf(k) /\ InsertIdx(k) = B

\* the frame the descent of remove pushes last for key k: the parent of the
\* leaf, its length and the leaf's child index
ParentFrame(k) ==
    LET top(st) == st[Len(st)]
    IN  top(Descend(clear_stack(TreeState), root, k, NoFin, MaxDepth).t.stack)

\* key k is stored in a leaf of MIN_LEN_AFTER_SPLIT pairs under a parent, its
\* left sibling, if it has one, holds MIN_LEN_AFTER_SPLIT pairs as well and
\* its right sibling more
StealsFromRight(k) ==
    /\ fault = "none"
    /\ stack = <<>>
    /\ Stored(k) # None
    /\ root # None
    /\ IsInternal(root)
    /\ TargetLeaf(k) # None
    /\ heap[TargetLeaf(k)].len = MIN_LEN_AFTER_SPLIT
    /\ LET sided(f) ==
               /\ f.idx > 0 =>
                     heap[read_slot(heap, f.node, f.idx - 1)].len = MIN_LEN_AFTER_SPLIT
               /\ f.idx < heap[f.node].len
               /\ heap[read_slot(heap, f.node, f.idx + 1)].len > MIN_LEN_AFTER_SPLIT
       IN  sided(ParentFrame(k))

\* C32: a remove from a leaf of MIN_LEN_AFTER_SPLIT pairs whose left sibling,
\* if any, holds MIN_LEN_AFTER_SPLIT pairs and whose right sibling holds more
\* takes one pair from the right sibling, and no node is merged or
\* deallocated, whichever child of its parent the leaf is.
C32_StealsFromRightSibling ==
    \A k \in WideKeys :
        StealsFromRight(k) =>
            LET stolen(leaf, right, after) ==
                    /\ DOMAIN after.heap = DOMAIN heap
                    /\ after.heap[right].len = heap[right].len - 1
                    /\ after.heap[leaf].len = MIN_LEN_AFTER_SPLIT
                at(f) == stolen(TargetLeaf(k), read_slot(heap, f.node, f.idx + 1),
                                remove(TreeState, k).t)
            IN  at(ParentFrame(k))

\* the root is an internal node with one key over two leaves of
\* MIN_LEN_AFTER_SPLIT pairs, one of which holds key k: its removal merges the
\* leaves and leaves the root no key
MergeEmptiesRoot(k) ==
    /\ root # None
    /\ IsInternal(root)
    /\ heap[root].len = 1
    /\ Stored(k) # None
    /\ \A i \in {0, 1} :
           /\ IsLeaf(read_slot(heap, root, i))
           /\ heap[read_slot(heap, root, i)].len = MIN_LEN_AFTER_SPLIT

\* C33: a remove whose merge leaves the internal root no key and one child
\* deallocates the root and makes the merged child the root, the tree one
\* level lower; after every other remove the root is the node it was.
C33_RootCollapsesOnlyWhenEmptied ==
    \A k \in Keys :
        LET collapsed(after) ==
                (fault = "none" /\ after.fault # "no_node") =>
                    IF MergeEmptiesRoot(k)
                    THEN /\ after.root = read_slot(heap, root, 0)
                         /\ root \notin DOMAIN after.heap
                         /\ after.root \in DOMAIN after.heap
                         /\ after.heap[after.root].tag = NODE_TYPE_LEAF
                    ELSE after.root = root
        IN  collapsed(remove(TreeState, k).t)

\* C34: after any sequence of insert and remove calls, contains_key(k) is true
\* exactly when get_copy(k) returns a value, although contains_key answers at
\* the first internal node that holds k as a separator.
C34_ContainsAgreesWithGet ==
    Determined => \A k \in Keys : contains_key(k) <=> get_copy(k) # None

\* the first key of the leaves under the node at ptr, Undefined when there is
\* none
MinLeafKey(ptr) ==
    LET first(pairs) == IF pairs = <<>> THEN Undefined ELSE pairs[1][1]
    IN  first(Traversal(ptr, MaxDepth))

\* C35: after every completed insert and remove, every separator key of an
\* internal node is a key stored in a leaf: the least key under the child to
\* its right; a remove of a leaf's least key rewrites the separator above.
C35_SeparatorsAreLeafMinima ==
    Determined =>
        \A p \in (IF root = None THEN {} ELSE Subtree(root, MaxDepth)) :
            IsInternal(p) =>
                \A i \in 0 .. heap[p].len - 1 :
                    read_key(heap, p, i) = MinLeafKey(read_slot(heap, p, i + 1))

\* C36: at the return of every insert and every remove the map's descent
\* stack is empty, a remove that does not find its key included, so that the
\* next call rebalances with the frames of its own descent only.
C36_StackEmptyAtReturn == fault = "none" => stack = <<>>

\* C37: a reallocate that succeeds in place leaves free_size + allocated_size
\* as it was: allocated_size rises by the new total size of the block less its
\* old total size and free_size falls by as much, the neighbor taken whole or
\* split.
C37_InPlaceKeepsSizeSum ==
    Usable =>
        \A ptr \in DOMAIN slices : \A new_size \in ReallocSizes :
            LET kept(r) ==
                    r.ok =>
                        /\ r.a.free_size + r.a.allocated_size = free_size + allocated_size
                        /\ r.a.allocated_size - allocated_size =
                               get_total_size_bytes(r.size)
                                   - get_total_size_bytes(slices[ptr])
                        /\ free_size - r.a.free_size =
                               get_total_size_bytes(r.size)
                                   - get_total_size_bytes(slices[ptr])
            IN  kept(try_reallocate_inplace(AllocatorState, ptr, slices[ptr], new_size))

\* the number of places of the free list of class c that hold block p
TimesLinked(c, p) ==
    Cardinality({i \in 1 .. Len(FreeList(c)) : FreeList(c)[i] = p})

\* C38: after every completed allocator operation every free block is linked
\* in exactly one free list, once, and that list is the one of the class
\* get_seg_class_id gives for the block's current payload size; the free
\* lists hold nothing but free blocks, so the class taken from a free
\* neighbor's size is the list the neighbor is found in.
C38_FreeBlocksInOwnClass ==
    /\ \A p \in DOMAIN blocks :
          blocks[p].free =>
              \A c \in SegClasses :
                  TimesLinked(c, p) =
                      (IF c = get_seg_class_id(blocks[p].size) THEN 1 ELSE 0)
    /\ \A p \in LinkedBlocks : p \in DOMAIN blocks /\ blocks[p].free

\* a deallocate that ejected both free neighbors from the lists of their
\* classes and pushed the merged block, free blocks of two classes linked
C38_Witness ==
    /\ last_op.op = "deallocate"
    /\ last_op.path = "both"
    /\ Cardinality({c \in SegClasses : seg_class_heads[c] # EMPTY_PTR}) >= 2

\* C39: every call of SHashMap::insert on a map made by
\* new_with_capacity(c), c >= 1, returns with the pair stored: every growth
\* step (capacity 2 * c - 1) leads to a capacity at which the pending key can
\* be stored.
C39_InsertTerminates ==
    (hash_call.pc = "running") ~> (hash_call.pc = "idle")

\* C40: after SHashMap::retain(f), get and contains_key find every entry f
\* answered true for, with its value, and no entry f answered false for, and
\* len() is the number of entries retained.
C40_RetainKeepsEntries ==
    hash_last.op = "retain" =>
        /\ hash_map.len = Cardinality(DOMAIN hash_ref)
        /\ \A k \in HashKeys : \A h \in HashesOf(k) :
               /\ SHashMap_get_copy(hash_map, k, HashWith(k, h)) = HashStored(k)
               /\ SHashMap_contains_key(hash_map, k, HashWith(k, h)) <=>
                      k \in DOMAIN hash_ref

====
